---------------------------- MODULE Spec2Model ----------------------------
(***************************************************************************)
(* Risk-scoring and threshold-classification engine of the SANBI Ecosystem *)
(* Risk Atlas (src/utils/risk_calculations.py over the static tables of    *)
(* src/app/config.py).                                                     *)
(*                                                                         *)
(* Numbers.  The Python code works on floats.  Every float argument of the *)
(* threshold, composite and urgency functions is only ever COMPARED with   *)
(* decimal literals of at most two decimals, so such an argument is        *)
(* modelled by an integer number of hundredths (0.05 is 5, 4.0 is 400,     *)
(* 50 is 5000) and the literals are scaled the same way; the order of two  *)
(* such decimals is the order of their doubles.  The arguments of          *)
(* calculate_performance_vs_national are subtracted and divided, so they   *)
(* are modelled as whole numbers of halves (8 is 16, 0.5 is 1), which are  *)
(* doubles: the difference is exact, and the double p / q is the correctly *)
(* rounded quotient, which compares with the literal 0.7 (0.9, 1.1, 1.3)   *)
(* exactly as the rational p/q compares with 7/10 (9/10, ...).  Where the  *)
(* code goes on computing with the rounded quotient (abs(ratio - 1)), the  *)
(* model rounds bit by bit.                                                *)
(***************************************************************************)
EXTENDS Integers, Sequences, FiniteSets, TLC

VARIABLES
    ECOSYSTEM_RISK_THRESHOLDS,  \* module global of app/config.py
    THREAT_LEVELS,              \* module global of app/config.py
    RISK_COLORS,                \* module global of app/config.py
    pc,                         \* "ready": the call is about to run; "done": it returned or raised
    fn,                         \* name of the function being called
    arg,                        \* its arguments
    ret,                        \* its outcome: [raised |-> ..., value |-> ...]
    divisions,                  \* number of float divisions the call executed
    ret_object,                 \* which object the returned dict is
    history,                    \* the calls completed so far, with what they returned
    session_state,              \* st.session_state: the keys the filter keeps
    selected,                   \* locals of create_filter_sidebar in the current run
    db_engine,                  \* DatabaseManager._engine
    query_cache,                \* st.cache_data entries of execute_query
    health_status               \* the dict check_database_health is filling in

vars == <<ECOSYSTEM_RISK_THRESHOLDS, THREAT_LEVELS, RISK_COLORS,
          pc, fn, arg, ret, divisions, ret_object, history,
          session_state, selected, db_engine, query_cache, health_status>>

filter_vars == <<session_state, selected>>

data_vars == <<db_engine, query_cache, health_status>>

tables == <<ECOSYSTEM_RISK_THRESHOLDS, THREAT_LEVELS, RISK_COLORS>>

-----------------------------------------------------------------------------
(* Static tables of app/config.py (cutoffs in hundredths).                 *)

\* Mutant of ThresholdTable: the low and moderate cutoffs of protection_gap
\* typed in the wrong order.
ThresholdTable_Misordered ==
    [ habitat_loss   |-> [critical |-> 400,  high |-> 200,  moderate |-> 100,
                          low |-> 50,   minimal |-> 10],
      annual_decline |-> [critical |-> 40,   high |-> 20,   moderate |-> 10,
                          low |-> 5,    minimal |-> 1],
      transformation |-> [critical |-> 5000, high |-> 2500, moderate |-> 1500,
                          low |-> 1000, minimal |-> 500],
      protection_gap |-> [critical |-> 8000, high |-> 6000, moderate |-> 2000,
                          low |-> 4000, minimal |-> 1000] ]

ThresholdTable ==
    [ habitat_loss   |-> [critical |-> 400,  high |-> 200,  moderate |-> 100,
                          low |-> 50,   minimal |-> 10],
      annual_decline |-> [critical |-> 40,   high |-> 20,   moderate |-> 10,
                          low |-> 5,    minimal |-> 1],
      transformation |-> [critical |-> 5000, high |-> 2500, moderate |-> 1500,
                          low |-> 1000, minimal |-> 500],
      protection_gap |-> [critical |-> 8000, high |-> 6000, moderate |-> 4000,
                          low |-> 2000, minimal |-> 1000] ]

\* Mutant of ThreatLevelTable: an entry of its own under "DD".
ThreatLevelTable_WithDD ==
    ("CR" :> [name |-> "Critically Endangered", color |-> "#d73027", priority |-> 5]) @@
    ("EN" :> [name |-> "Endangered",            color |-> "#f46d43", priority |-> 4]) @@
    ("VU" :> [name |-> "Vulnerable",            color |-> "#fdae61", priority |-> 3]) @@
    ("NT" :> [name |-> "Near Threatened",       color |-> "#fee08b", priority |-> 2]) @@
    ("LC" :> [name |-> "Least Concern",         color |-> "#abdda4", priority |-> 1]) @@
    ("DD" :> [name |-> "Data Deficient",        color |-> "#999999", priority |-> 0]) @@
    (""   :> [name |-> "Data Deficient",        color |-> "#cccccc", priority |-> 0])

\* The key "" of the source is the Data Deficient entry.
ThreatLevelTable ==
    ("CR" :> [name |-> "Critically Endangered", color |-> "#d73027", priority |-> 5]) @@
    ("EN" :> [name |-> "Endangered",            color |-> "#f46d43", priority |-> 4]) @@
    ("VU" :> [name |-> "Vulnerable",            color |-> "#fdae61", priority |-> 3]) @@
    ("NT" :> [name |-> "Near Threatened",       color |-> "#fee08b", priority |-> 2]) @@
    ("LC" :> [name |-> "Least Concern",         color |-> "#abdda4", priority |-> 1]) @@
    (""   :> [name |-> "Data Deficient",        color |-> "#cccccc", priority |-> 0])

RiskColorTable ==
    [ critical |-> "#d73027", high |-> "#f46d43", moderate |-> "#fdae61",
      low |-> "#fee08b", minimal |-> "#abdda4", success |-> "#2166ac" ]

-----------------------------------------------------------------------------
(* Outcomes of a call.                                                     *)

Pending == [raised |-> "pending"]
Return(v) == [raised |-> "no", value |-> v]
Raise(e) == [raised |-> e]

-----------------------------------------------------------------------------
(* get_risk_level_by_threshold / get_risk_color_by_threshold               *)

\* Mutants of ReachesCutoff: a strict comparison, and a comparison the wrong
\* way round.
ReachesCutoff_Strict(thresholds, level, value) ==
    /\ level \in DOMAIN thresholds
    /\ value > thresholds[level]

ReachesCutoff_Flipped(thresholds, level, value) ==
    /\ level \in DOMAIN thresholds
    /\ value <= thresholds[level]

\* `value >= thresholds.get(level, float('inf'))': a missing level yields
\* infinity, which no finite value reaches.
ReachesCutoff(thresholds, level, value) ==
    /\ level \in DOMAIN thresholds
    /\ value >= thresholds[level]

\* Mutant of get_risk_level_by_threshold: an unrecognized risk_type falls
\* back on the habitat_loss cutoffs instead of on the empty dict.
get_risk_level_by_threshold_Fallback(risk_type, value) ==
    LET thresholds == IF risk_type \in DOMAIN ECOSYSTEM_RISK_THRESHOLDS
                      THEN ECOSYSTEM_RISK_THRESHOLDS[risk_type]
                      ELSE ECOSYSTEM_RISK_THRESHOLDS["habitat_loss"] IN
    IF ReachesCutoff(thresholds, "critical", value) THEN "critical"
    ELSE IF ReachesCutoff(thresholds, "high", value) THEN "high"
    ELSE IF ReachesCutoff(thresholds, "moderate", value) THEN "moderate"
    ELSE IF ReachesCutoff(thresholds, "low", value) THEN "low"
    ELSE "minimal"

\* thresholds = ECOSYSTEM_RISK_THRESHOLDS.get(risk_type, {}); an empty dict
\* is falsy and returns 'minimal' before any comparison.
get_risk_level_by_threshold(risk_type, value) ==
    IF risk_type \notin DOMAIN ECOSYSTEM_RISK_THRESHOLDS
       \/ DOMAIN ECOSYSTEM_RISK_THRESHOLDS[risk_type] = {}
    THEN "minimal"
    ELSE LET thresholds == ECOSYSTEM_RISK_THRESHOLDS[risk_type] IN
         IF ReachesCutoff(thresholds, "critical", value) THEN "critical"
         ELSE IF ReachesCutoff(thresholds, "high", value) THEN "high"
         ELSE IF ReachesCutoff(thresholds, "moderate", value) THEN "moderate"
         ELSE IF ReachesCutoff(thresholds, "low", value) THEN "low"
         ELSE "minimal"

get_risk_color_by_threshold(risk_type, value) ==
    LET risk_level == get_risk_level_by_threshold(risk_type, value) IN
    IF risk_level \in DOMAIN RISK_COLORS THEN RISK_COLORS[risk_level]
    ELSE "#cccccc"

-----------------------------------------------------------------------------
(* Python's dict.get(key, default) on a table held as a function.          *)

DictGet(d, key, default) == IF key \in DOMAIN d THEN d[key] ELSE default

-----------------------------------------------------------------------------
(* get_threat_level_info and get_protection_level_info.  A dict is a       *)
(* function from its keys; {} is the function with no keys.                *)

\* The identity of a returned dict: one the call built, or the entry of
\* THREAT_LEVELS under `key'.
FreshObject == [shared |-> FALSE, key |-> ""]

TableEntry(key) == [shared |-> TRUE, key |-> key]

\* Mutant of threat_info_object: base_info itself is filled in and returned.
threat_info_object_Shared(threat_code) ==
    TableEntry(IF threat_code \in DOMAIN THREAT_LEVELS THEN threat_code ELSE "")

\* return {**base_info, ...}: a dict display builds a new dict.
threat_info_object(threat_code) == FreshObject

\* Python's None, passed where a code string is expected.
NoneCode == "<None>"

EmptyDict == <<>>

\* {**base, 'k': v, ...}: the keys written after the unpacking win.
DictMerge(base, later) == later @@ base

descriptions ==
    [ CR |-> "Facing extremely high risk of extinction in the wild",
      EN |-> "Facing very high risk of extinction in the wild",
      VU |-> "Facing high risk of extinction in the wild",
      NT |-> "Close to qualifying for threatened category",
      LC |-> "Widespread and abundant, lowest risk category" ]

\* Mutant of get_threat_level_info: an unknown code falls back to {}
\* instead of the entry under ''.
get_threat_level_info_NoFallback(threat_code) ==
    LET base_info == DictGet(THREAT_LEVELS, threat_code, EmptyDict)
    IN  DictMerge(base_info,
                  [description |-> DictGet(descriptions, threat_code,
                                           "Classification pending or data deficient"),
                   code |-> threat_code])

get_threat_level_info(threat_code) ==
    LET base_info == DictGet(THREAT_LEVELS, threat_code,
                             DictGet(THREAT_LEVELS, "", EmptyDict))
    IN  DictMerge(base_info,
                  [description |-> DictGet(descriptions, threat_code,
                                           "Classification pending or data deficient"),
                   code |-> threat_code])

\* Mutant of protection_info: the statuses of PP and NP exchanged.
protection_info_Swapped ==
    [ WP |-> [name |-> "Well Protected", color |-> "#2166ac",
              description |-> "Exceeds biodiversity conservation target",
              status |-> "success"],
      MP |-> [name |-> "Moderately Protected", color |-> "#abdda4",
              description |-> "50-99% of biodiversity target protected",
              status |-> "moderate"],
      PP |-> [name |-> "Poorly Protected", color |-> "#fdae61",
              description |-> "5-49% of biodiversity target protected",
              status |-> "critical"],
      NP |-> [name |-> "Not Protected", color |-> "#d73027",
              description |-> "Less than 5% of biodiversity target protected",
              status |-> "warning"] ]

protection_info ==
    [ WP |-> [name |-> "Well Protected", color |-> "#2166ac",
              description |-> "Exceeds biodiversity conservation target",
              status |-> "success"],
      MP |-> [name |-> "Moderately Protected", color |-> "#abdda4",
              description |-> "50-99% of biodiversity target protected",
              status |-> "moderate"],
      PP |-> [name |-> "Poorly Protected", color |-> "#fdae61",
              description |-> "5-49% of biodiversity target protected",
              status |-> "warning"],
      NP |-> [name |-> "Not Protected", color |-> "#d73027",
              description |-> "Less than 5% of biodiversity target protected",
              status |-> "critical"] ]

get_protection_level_info(protection_code) ==
    DictGet(protection_info, protection_code,
            [name |-> "Unknown", color |-> "#cccccc",
             description |-> "Protection status unknown", status |-> "unknown"])

-----------------------------------------------------------------------------
(* GeographicFilter.get_selection_level.                                   *)

\* Mutant of get_selection_level: the coarsest specific level first.
get_selection_level_CoarsestFirst(selections) ==
    IF selections.biome # "All Biomes" THEN "biome"
    ELSE IF selections.bioregion # "All Bioregions" THEN "bioregion"
    ELSE IF selections.ecosystem # "All Ecosystems" THEN "ecosystem"
    ELSE "national"

\* The locals selected_biome, selected_bioregion, selected_ecosystem before
\* they are assigned, and the selectors that showed a selectbox.
NoneSelected == [biome |-> "", bioregion |-> "", ecosystem |-> "", shown |-> {}]

get_selection_level(selections) ==
    IF selections.ecosystem # "All Ecosystems" THEN "ecosystem"
    ELSE IF selections.bioregion # "All Bioregions" THEN "bioregion"
    ELSE IF selections.biome # "All Biomes" THEN "biome"
    ELSE "national"

-----------------------------------------------------------------------------
(* assess_risk_trajectory (current_natural and annual_decline in           *)
(* hundredths: 30 is 3000, 0.2 is 20).                                     *)

\* The trajectory dict after the `current status' block.
trajectory_by_status(current_natural) ==
    IF current_natural < 3000
    THEN [level |-> "critical", color |-> "#d73027", urgency |-> "immediate"]
    ELSE IF current_natural < 5000
    THEN [level |-> "high_risk", color |-> "#f46d43", urgency |-> "high"]
    ELSE IF current_natural < 7000
    THEN [level |-> "moderate_risk", color |-> "#fdae61", urgency |-> "moderate"]
    ELSE [level |-> "stable", color |-> "#abdda4", urgency |-> "low"]

recommendations_by_status(current_natural) ==
    IF current_natural < 3000
    THEN <<"Immediate intervention required", "Emergency conservation measures needed">>
    ELSE IF current_natural < 5000 THEN <<"Urgent conservation action required">>
    ELSE IF current_natural < 7000 THEN <<"Active monitoring and management needed">>
    ELSE <<>>

\* Mutant of assess_risk_trajectory: a rapid decline sets the urgency to
\* 'high' whatever it was.
assess_risk_trajectory_Overwrite(current_natural, annual_decline, protection_level) ==
    LET t1 == trajectory_by_status(current_natural)
        r1 == recommendations_by_status(current_natural)
        t2 == IF annual_decline > 20
              THEN [t1 EXCEPT !.urgency = "high"] ELSE t1
        r2 == IF annual_decline > 20 THEN Append(r1, "Address rapid decline causes")
              ELSE IF annual_decline > 10 THEN Append(r1, "Monitor decline trends closely")
              ELSE r1
        protection == get_protection_level_info(protection_level)
        exposed == protection.status \in {"critical", "warning"}
        t3 == IF exposed /\ t2.urgency = "low"
              THEN [t2 EXCEPT !.urgency = "moderate"] ELSE t2
        r3 == IF exposed THEN Append(r2, "Improve protection coverage") ELSE r2
    IN  [trajectory |-> t3, recommendations |-> r3, protection_status |-> protection]

assess_risk_trajectory(current_natural, annual_decline, protection_level) ==
    LET t1 == trajectory_by_status(current_natural)
        r1 == recommendations_by_status(current_natural)
        t2 == IF annual_decline > 20 /\ t1.urgency # "immediate"
              THEN [t1 EXCEPT !.urgency = "high"] ELSE t1
        r2 == IF annual_decline > 20 THEN Append(r1, "Address rapid decline causes")
              ELSE IF annual_decline > 10 THEN Append(r1, "Monitor decline trends closely")
              ELSE r1
        protection == get_protection_level_info(protection_level)
        exposed == protection.status \in {"critical", "warning"}
        t3 == IF exposed /\ t2.urgency = "low"
              THEN [t2 EXCEPT !.urgency = "moderate"] ELSE t2
        r3 == IF exposed THEN Append(r2, "Improve protection coverage") ELSE r2
    IN  [trajectory |-> t3, recommendations |-> r3, protection_status |-> protection]

-----------------------------------------------------------------------------
(* calculate_composite_risk_score (annual_decline and transformation_pct   *)
(* in hundredths: 0.3 is 30, 50 is 5000).                                  *)

iucn_scores == ("CR" :> 50) @@ ("EN" :> 30) @@ ("VU" :> 15) @@ ("NT" :> 5) @@ ("LC" :> 0)

\* Mutants of decline_score: inclusive bands, and bands that add up (`if'
\* for `elif').
decline_score_Inclusive(annual_decline) ==
    IF annual_decline >= 30 THEN 25
    ELSE IF annual_decline >= 20 THEN 15
    ELSE IF annual_decline >= 10 THEN 10
    ELSE IF annual_decline >= 5 THEN 5
    ELSE 0

decline_score_Cumulative(annual_decline) ==
    (IF annual_decline > 30 THEN 25 ELSE 0) + (IF annual_decline > 20 THEN 15 ELSE 0)
    + (IF annual_decline > 10 THEN 10 ELSE 0) + (IF annual_decline > 5 THEN 5 ELSE 0)

decline_score(annual_decline) ==
    IF annual_decline > 30 THEN 25
    ELSE IF annual_decline > 20 THEN 15
    ELSE IF annual_decline > 10 THEN 10
    ELSE IF annual_decline > 5 THEN 5
    ELSE 0

\* Mutant of transformation_score: the bands take their lower ends in, as
\* the cutoffs of get_risk_level_by_threshold do.
transformation_score_Inclusive(transformation_pct) ==
    IF transformation_pct >= 5000 THEN 25
    ELSE IF transformation_pct >= 2500 THEN 15
    ELSE IF transformation_pct >= 1500 THEN 10
    ELSE 0

transformation_score(transformation_pct) ==
    IF transformation_pct > 5000 THEN 25
    ELSE IF transformation_pct > 2500 THEN 15
    ELSE IF transformation_pct > 1500 THEN 10
    ELSE 0

calculate_composite_risk_score(iucn_code, annual_decline, transformation_pct) ==
    LET iucn_score == DictGet(iucn_scores, iucn_code, 0) IN
    iucn_score + decline_score(annual_decline) + transformation_score(transformation_pct)

-----------------------------------------------------------------------------
(* EcosystemQueries.get_crisis_ecosystems: the query, evaluated on a table *)
(* held as a sequence of rows (prcdelyear and pcnat2014 in hundredths).    *)

\* Mutant of sql_composite_risk_score: the SQL bands take their lower ends in.
sql_composite_risk_score_Inclusive(rlev5, prcdelyear, pcnat2014) ==
    (CASE rlev5 = "CR" -> 50 [] rlev5 = "EN" -> 30 [] rlev5 = "VU" -> 15
       [] rlev5 = "NT" -> 5 [] OTHER -> 0)
    + (CASE prcdelyear >= 30 -> 25
         [] prcdelyear < 30 /\ prcdelyear >= 20 -> 15
         [] prcdelyear < 20 /\ prcdelyear >= 10 -> 10
         [] prcdelyear < 10 /\ prcdelyear >= 5 -> 5
         [] OTHER -> 0)
    + (CASE 10000 - pcnat2014 >= 5000 -> 25
         [] 10000 - pcnat2014 < 5000 /\ 10000 - pcnat2014 >= 2500 -> 15
         [] 10000 - pcnat2014 < 2500 /\ 10000 - pcnat2014 >= 1500 -> 10
         [] OTHER -> 0)

\* The composite_risk_score column: three CASE expressions, each taking its
\* first WHEN that holds.
sql_composite_risk_score(rlev5, prcdelyear, pcnat2014) ==
    (CASE rlev5 = "CR" -> 50 [] rlev5 = "EN" -> 30 [] rlev5 = "VU" -> 15
       [] rlev5 = "NT" -> 5 [] OTHER -> 0)
    + (CASE prcdelyear > 30 -> 25
         [] prcdelyear <= 30 /\ prcdelyear > 20 -> 15
         [] prcdelyear <= 20 /\ prcdelyear > 10 -> 10
         [] prcdelyear <= 10 /\ prcdelyear > 5 -> 5
         [] OTHER -> 0)
    + (CASE 10000 - pcnat2014 > 5000 -> 25
         [] 10000 - pcnat2014 <= 5000 /\ 10000 - pcnat2014 > 2500 -> 15
         [] 10000 - pcnat2014 <= 2500 /\ 10000 - pcnat2014 > 1500 -> 10
         [] OTHER -> 0)

\* A row of the result: the selected columns and the two computed ones.
crisis_row(r) ==
    [name_18 |-> r.name_18, biome_18 |-> r.biome_18, rlev5 |-> r.rlev5,
     pcnat2014 |-> r.pcnat2014, prcdelyear |-> r.prcdelyear,
     transformation_percentage |-> 10000 - r.pcnat2014,
     composite_risk_score |-> sql_composite_risk_score(r.rlev5, r.prcdelyear, r.pcnat2014)]

\* WHERE biome_18 NOT IN ('', '<Null>', ' ') AND name_18 IS NOT NULL.
crisis_where(r) == r.biome_18 \notin {"", "<Null>", " "} /\ r.name_18 # NoneCode

\* The rows the WHERE clause keeps, in table order.
RECURSIVE crisis_selected(_)
crisis_selected(table) ==
    IF table = <<>> THEN <<>>
    ELSE LET rest == crisis_selected(Tail(table))
         IN  IF crisis_where(Head(table)) THEN <<crisis_row(Head(table))>> \o rest
             ELSE rest

\* ORDER BY composite_risk_score DESC, prcdelyear DESC: row a may precede b.
crisis_precedes(a, b) ==
    \/ a.composite_risk_score > b.composite_risk_score
    \/ /\ a.composite_risk_score = b.composite_risk_score
       /\ a.prcdelyear >= b.prcdelyear

\* Every result the query may give: the selected rows in an order the ORDER
\* BY allows (rows that tie may come either way), cut off after `limit'.
get_crisis_ecosystems(table, limit) ==
    LET rows == crisis_selected(table)
        n == Len(rows)
        orders == {p \in [1..n -> 1..n] :
                      /\ \A i, j \in 1..n : i # j => p[i] # p[j]
                      /\ \A i \in 1..n, j \in 1..n :
                            i < j => crisis_precedes(rows[p[i]], rows[p[j]])}
    IN  {[i \in 1..(IF limit < n THEN limit ELSE n) |-> rows[p[i]]] : p \in orders}

-----------------------------------------------------------------------------
(* CacheManager.get_biome_risk_summary, on the DataFrame that              *)
(* get_ecosystem_details returned, held as a sequence of rows.  A nullable *)
(* number is <<>> for NULL (NaN in the DataFrame) and <<v>> for v.         *)

\* The positions of the rows that satisfy a condition on rlev5.
rows_with_level(rows, levels) == {i \in 1..Len(rows) : rows[i].rlev5 \in levels}

\* The numbers of a nullable column that are not NaN, as position :> value.
column_values(rows, column) ==
    [i \in {k \in 1..Len(rows) : rows[k][column] # <<>>} |-> rows[i][column][1]]

RECURSIVE column_sum(_)
column_sum(values) ==
    IF DOMAIN values = {} THEN 0
    ELSE LET i == CHOOSE k \in DOMAIN values : TRUE
         IN  values[i] + column_sum([k \in DOMAIN values \ {i} |-> values[k]])

\* Series.mean(): NaN values are skipped; the mean as sum over count, NaN
\* when nothing is left.
column_mean(values) ==
    IF DOMAIN values = {} THEN [nan |-> TRUE, sum |-> 0, count |-> 0]
    ELSE [nan |-> FALSE, sum |-> column_sum(values), count |-> Cardinality(DOMAIN values)]

\* Series.max(): NaN values are skipped; NaN (<<>>) when nothing is left.
column_max(values) ==
    IF DOMAIN values = {} THEN <<>>
    ELSE <<CHOOSE v \in {values[i] : i \in DOMAIN values} :
               \A i \in DOMAIN values : values[i] <= v>>

\* Series.idxmax(): the first position that holds the maximum.
column_idxmax(values) ==
    CHOOSE i \in DOMAIN values :
        /\ <<values[i]>> = column_max(values)
        /\ \A k \in DOMAIN values : values[k] = values[i] => i <= k

Minimum(S) == CHOOSE i \in S : \A k \in S : i <= k

\* threatened_ecosystems.iloc[0], or None (<<>>) when no row is CR or EN.
most_threatened(rows) ==
    LET threatened == rows_with_level(rows, {"CR", "EN"})
    IN  IF threatened = {} THEN <<>>
        ELSE LET r == rows[Minimum(threatened)]
             IN  <<[name |-> r.name_18, threat_level |-> r.rlev5,
                    decline_rate |-> r.prcdelyear]>>

\* The outcomes of get_biome_risk_summary.  With every prcdelyear NULL,
\* idxmax gives NaN and .loc[NaN] raises KeyError, or idxmax itself raises
\* ValueError or (on a column of None objects) TypeError, depending on the
\* pandas version and on the dtype the column was read with.
get_biome_risk_summary(biome, rows) ==
    IF rows = <<>> THEN {Return(EmptyDict)}
    ELSE LET declines == column_values(rows, "prcdelyear")
             naturals == column_values(rows, "pcnat2014")
             transformations == [i \in DOMAIN naturals |-> 10000 - naturals[i]]
             summary ==
                 [biome_name |-> biome,
                  total_ecosystems |-> Len(rows),
                  critically_endangered |-> Cardinality(rows_with_level(rows, {"CR"})),
                  endangered |-> Cardinality(rows_with_level(rows, {"EN"})),
                  vulnerable |-> Cardinality(rows_with_level(rows, {"VU"})),
                  avg_natural_habitat |-> column_mean(naturals),
                  avg_annual_decline |-> column_mean(declines),
                  avg_transformation |-> column_mean(transformations),
                  max_decline_rate |-> column_max(declines),
                  most_threatened_ecosystem |-> most_threatened(rows)]
         IN  IF DOMAIN declines = {}
             THEN {Raise("KeyError"), Raise("ValueError"), Raise("TypeError")}
             ELSE LET fastest_declining == rows[column_idxmax(declines)]
                  IN  {Return(summary @@
                          [fastest_declining_ecosystem |->
                              <<[name |-> fastest_declining.name_18,
                                 decline_rate |-> fastest_declining.prcdelyear,
                                 threat_level |-> fastest_declining.rlev5]>>])}

-----------------------------------------------------------------------------
(* categorize_ecosystem_urgency (annual_decline and current_natural in     *)
(* hundredths: 0.05 is 5, 30 is 3000).                                     *)

iucn_urgency == ("CR" :> 4) @@ ("EN" :> 3) @@ ("VU" :> 2) @@ ("NT" :> 1) @@ ("LC" :> 0)

\* Mutant of protection_urgency: the sign of the WP contribution lost.
protection_urgency_Unsigned == ("NP" :> 2) @@ ("PP" :> 1) @@ ("MP" :> 0) @@ ("WP" :> 1)

protection_urgency == ("NP" :> 2) @@ ("PP" :> 1) @@ ("MP" :> 0) @@ ("WP" :> -1)

urgency_decline(annual_decline) ==
    IF annual_decline > 30 THEN 3
    ELSE IF annual_decline > 10 THEN 2
    ELSE IF annual_decline > 5 THEN 1
    ELSE 0

urgency_habitat(current_natural) ==
    IF current_natural < 3000 THEN 3
    ELSE IF current_natural < 5000 THEN 2
    ELSE IF current_natural < 7000 THEN 1
    ELSE 0

urgency_score_of(iucn_code, annual_decline, current_natural, protection_level) ==
    0 + DictGet(iucn_urgency, iucn_code, 0)
      + urgency_decline(annual_decline)
      + urgency_habitat(current_natural)
      + DictGet(protection_urgency, protection_level, 0)

urgency_category(urgency_score) ==
    IF urgency_score >= 8 THEN
        [category |-> "Emergency", color |-> "#8B0000",
         timeframe |-> "Immediate (0-1 years)",
         recommended_actions |-> <<"Emergency intervention",
                                   "Immediate threat mitigation",
                                   "Expert assessment">>]
    ELSE IF urgency_score >= 6 THEN
        [category |-> "Critical", color |-> "#d73027",
         timeframe |-> "Urgent (1-3 years)",
         recommended_actions |-> <<"Priority conservation", "Threat assessment",
                                   "Management plan">>]
    ELSE IF urgency_score >= 4 THEN
        [category |-> "High", color |-> "#f46d43",
         timeframe |-> "High priority (3-5 years)",
         recommended_actions |-> <<"Active management", "Monitoring program",
                                   "Threat reduction">>]
    ELSE IF urgency_score >= 2 THEN
        [category |-> "Moderate", color |-> "#fdae61",
         timeframe |-> "Regular monitoring (5-10 years)",
         recommended_actions |-> <<"Regular monitoring", "Preventive measures",
                                   "Research needs">>]
    ELSE
        [category |-> "Low", color |-> "#abdda4",
         timeframe |-> "Stable management",
         recommended_actions |-> <<"Maintain current protection",
                                   "Periodic assessment">>]

\* Mutant of categorize_ecosystem_urgency: the score is categorized before the
\* protection contribution is added.
categorize_ecosystem_urgency_EarlyCategory(iucn_code, annual_decline, current_natural, protection_level) ==
    LET urgency_score == urgency_score_of(iucn_code, annual_decline,
                                          current_natural, protection_level)
        c == urgency_category(urgency_score
                              - DictGet(protection_urgency, protection_level, 0))
    IN  [category |-> c.category, color |-> c.color,
         urgency_score |-> urgency_score, timeframe |-> c.timeframe,
         recommended_actions |-> c.recommended_actions]

categorize_ecosystem_urgency(iucn_code, annual_decline, current_natural, protection_level) ==
    LET urgency_score == urgency_score_of(iucn_code, annual_decline,
                                          current_natural, protection_level)
        c == urgency_category(urgency_score)
    IN  [category |-> c.category, color |-> c.color,
         urgency_score |-> urgency_score, timeframe |-> c.timeframe,
         recommended_actions |-> c.recommended_actions]

-----------------------------------------------------------------------------
(* IEEE-754 double arithmetic, as far as calculate_performance_vs_national *)
(* needs it.  A non-negative number below 4 is held as a sequence of bits, *)
(* most significant first: two integer bits, then the fraction bits.       *)

\* Significand width of a Python float (binary64).
DoublePrecision == 53

Abs(x) == IF x < 0 THEN -x ELSE x

RECURSIVE Gcd(_, _)
Gcd(x, y) == IF y = 0 THEN x ELSE Gcd(y, x % y)

\* Fraction position of the leading one bit of n/d (0 when n/d >= 1), n, d > 0.
RECURSIVE LeadPos(_, _)
LeadPos(n, d) == IF n >= d THEN 0 ELSE 1 + LeadPos(2 * n, d)

\* The next k fraction bits of rem/d (0 <= rem < d), after those in acc, and
\* the remainder left.
RECURSIVE Expand(_, _, _, _)
Expand(rem, d, k, acc) ==
    IF k = 0 THEN [bits |-> acc, rem |-> rem]
    ELSE Expand((2 * rem) % d, d, k - 1, Append(acc, (2 * rem) \div d))

\* Add one unit in the last place.
RECURSIVE Incr(_)
Incr(s) ==
    IF s = <<>> THEN <<>>
    ELSE IF s[Len(s)] = 0 THEN SubSeq(s, 1, Len(s) - 1) \o <<1>>
    ELSE Incr(SubSeq(s, 1, Len(s) - 1)) \o <<0>>

\* The double nearest to n/d (round to nearest, ties to even), 0 < n < 2d.
RoundToDouble(n, d) ==
    LET kept == LeadPos(n, d) + DoublePrecision - 1
        e    == Expand(n % d, d, kept, <<>>)
        s    == <<0, n \div d>> \o e.bits
        up   == \/ 2 * e.rem > d
                \/ 2 * e.rem = d /\ s[Len(s)] = 1
    IN  IF up THEN Incr(s) ELSE s

PadTo(s, len) == s \o [i \in 1..(len - Len(s)) |-> 0]

\* |s - 1| for a double s in [1/2, 2): the subtraction is exact there.
AbsMinusOne(s) ==
    IF s[2] = 1 THEN <<0, 0>> \o SubSeq(s, 3, Len(s))
    ELSE Incr(<<0, 0>> \o [i \in 1..(Len(s) - 2) |-> 1 - s[i + 2]])

BitsLE(s, t) ==
    LET len == IF Len(s) > Len(t) THEN Len(s) ELSE Len(t)
        ps  == PadTo(s, len)
        pt  == PadTo(t, len)
    IN  \/ ps = pt
        \/ \E i \in 1..len : /\ ps[i] < pt[i]
                             /\ \A j \in 1..(i - 1) : ps[j] = pt[j]

\* abs(local / national - 1) <= tn/td as the doubles decide it, for a literal
\* tn/td below 1/2.  A quotient outside [1/2, 2) is at least 1/2 away from 1.
AbsRatioMinusOneLE(local, national, tn, td) ==
    LET n == Abs(local)
        d == Abs(national)
    IN  IF local = 0 \/ (local < 0) # (national < 0) \/ 2 * n < d \/ n >= 2 * d
        THEN FALSE
        ELSE BitsLE(AbsMinusOne(RoundToDouble(n, d)), RoundToDouble(tn, td))

\* local / national <= tn/td and >= tn/td for whole halves local, national and
\* a two-digit literal tn/td: the correctly rounded quotient is ordered
\* against the literal's double as the rationals are.
\* Mutant of RatioLE: a strict comparison.
RatioLE_Strict(local, national, tn, td) ==
    IF national > 0 THEN local * td < tn * national
    ELSE local * td > tn * national

RatioLE(local, national, tn, td) ==
    IF national > 0 THEN local * td <= tn * national
    ELSE local * td >= tn * national

\* Mutant of RatioGE: a strict comparison.
RatioGE_Strict(local, national, tn, td) ==
    IF national > 0 THEN local * td > tn * national
    ELSE local * td < tn * national

RatioGE(local, national, tn, td) ==
    IF national > 0 THEN local * td >= tn * national
    ELSE local * td <= tn * national

\* local / national as a fraction in lowest terms, or ZeroDivisionError.
TrueDiv(local, national) ==
    IF national = 0 THEN Raise("ZeroDivisionError")
    ELSE LET g == Gcd(Abs(local), Abs(national))
             sgn == IF national < 0 THEN -1 ELSE 1
         IN  Return([num |-> (sgn * local) \div g, den |-> Abs(national) \div g])

-----------------------------------------------------------------------------
(* calculate_performance_vs_national (local_value, national_value in       *)
(* halves).                                                                *)

better_when_higher(metric_type) == metric_type \in {"habitat", "protection", "natural"}

better_when_lower(metric_type) ==
    metric_type \in {"threat", "decline", "transformation", "loss"}

performance_category(local_value, national_value, metric_type) ==
    IF better_when_lower(metric_type) THEN
        IF RatioLE(local_value, national_value, 7, 10)
            THEN [category |-> "Much Better", color |-> "#2166ac"]
        ELSE IF RatioLE(local_value, national_value, 9, 10)
            THEN [category |-> "Better", color |-> "#abdda4"]
        ELSE IF RatioLE(local_value, national_value, 11, 10)
            THEN [category |-> "Similar", color |-> "#ffffbf"]
        ELSE IF RatioLE(local_value, national_value, 13, 10)
            THEN [category |-> "Worse", color |-> "#fdae61"]
        ELSE [category |-> "Much Worse", color |-> "#d73027"]
    ELSE IF better_when_higher(metric_type) THEN
        IF RatioGE(local_value, national_value, 13, 10)
            THEN [category |-> "Much Better", color |-> "#2166ac"]
        ELSE IF RatioGE(local_value, national_value, 11, 10)
            THEN [category |-> "Better", color |-> "#abdda4"]
        ELSE IF RatioGE(local_value, national_value, 9, 10)
            THEN [category |-> "Similar", color |-> "#ffffbf"]
        ELSE IF RatioGE(local_value, national_value, 7, 10)
            THEN [category |-> "Worse", color |-> "#fdae61"]
        ELSE [category |-> "Much Worse", color |-> "#d73027"]
    ELSE
        IF AbsRatioMinusOneLE(local_value, national_value, 1, 10)
            THEN [category |-> "Similar", color |-> "#ffffbf"]
        ELSE IF AbsRatioMinusOneLE(local_value, national_value, 3, 10)
            THEN [category |-> "Moderate Difference", color |-> "#fdae61"]
        ELSE [category |-> "Large Difference", color |-> "#d73027"]

\* Mutant of calculate_performance_category: 'transformation' not among the
\* lower-is-better metric types.
calculate_performance_category_TwoLower(local_value, national_value, metric_type) ==
    IF national_value = 0 THEN [category |-> "No Comparison", color |-> "#cccccc"]
    ELSE IF metric_type \in {"threat", "decline"} THEN
        IF RatioLE(local_value, national_value, 7, 10)
            THEN [category |-> "Much Better", color |-> "#2166ac"]
        ELSE IF RatioLE(local_value, national_value, 9, 10)
            THEN [category |-> "Better", color |-> "#abdda4"]
        ELSE IF RatioLE(local_value, national_value, 11, 10)
            THEN [category |-> "Similar", color |-> "#ffffbf"]
        ELSE IF RatioLE(local_value, national_value, 13, 10)
            THEN [category |-> "Worse", color |-> "#fdae61"]
        ELSE [category |-> "Much Worse", color |-> "#d73027"]
    ELSE
        IF RatioGE(local_value, national_value, 13, 10)
            THEN [category |-> "Much Better", color |-> "#2166ac"]
        ELSE IF RatioGE(local_value, national_value, 11, 10)
            THEN [category |-> "Better", color |-> "#abdda4"]
        ELSE IF RatioGE(local_value, national_value, 9, 10)
            THEN [category |-> "Similar", color |-> "#ffffbf"]
        ELSE IF RatioGE(local_value, national_value, 7, 10)
            THEN [category |-> "Worse", color |-> "#fdae61"]
        ELSE [category |-> "Much Worse", color |-> "#d73027"]

\* ComparisonMetrics.calculate_performance_category of
\* components/comparison_metrics.py: lower is better for three metric
\* types, higher is better for every other one.
calculate_performance_category(local_value, national_value, metric_type) ==
    IF national_value = 0 THEN [category |-> "No Comparison", color |-> "#cccccc"]
    ELSE IF metric_type \in {"threat", "decline", "transformation"} THEN
        IF RatioLE(local_value, national_value, 7, 10)
            THEN [category |-> "Much Better", color |-> "#2166ac"]
        ELSE IF RatioLE(local_value, national_value, 9, 10)
            THEN [category |-> "Better", color |-> "#abdda4"]
        ELSE IF RatioLE(local_value, national_value, 11, 10)
            THEN [category |-> "Similar", color |-> "#ffffbf"]
        ELSE IF RatioLE(local_value, national_value, 13, 10)
            THEN [category |-> "Worse", color |-> "#fdae61"]
        ELSE [category |-> "Much Worse", color |-> "#d73027"]
    ELSE
        IF RatioGE(local_value, national_value, 13, 10)
            THEN [category |-> "Much Better", color |-> "#2166ac"]
        ELSE IF RatioGE(local_value, national_value, 11, 10)
            THEN [category |-> "Better", color |-> "#abdda4"]
        ELSE IF RatioGE(local_value, national_value, 9, 10)
            THEN [category |-> "Similar", color |-> "#ffffbf"]
        ELSE IF RatioGE(local_value, national_value, 7, 10)
            THEN [category |-> "Worse", color |-> "#fdae61"]
        ELSE [category |-> "Much Worse", color |-> "#d73027"]

\* Mutant of format_delta: one decimal place only when abs(delta) > 1.
format_delta_Strict(delta) ==
    LET delta_sign == IF delta > 0 THEN "+" ELSE "" IN
    IF Abs(delta) > 2
    THEN [prefix |-> delta_sign, minus |-> delta < 0, scaled |-> 5 * Abs(delta),
          decimals |-> 1, suffix |-> "pp"]
    ELSE [prefix |-> delta_sign, minus |-> delta < 0, scaled |-> 50 * Abs(delta),
          decimals |-> 2, suffix |-> "pp"]

\* f"{delta_sign}{delta:.1f}pp" when abs(delta) >= 1, else
\* f"{delta_sign}{delta:.2f}pp"; delta is a whole number of halves, so the
\* digits are exact: `scaled' is abs(delta) in units of 10^-decimals.
format_delta(delta) ==
    LET delta_sign == IF delta > 0 THEN "+" ELSE "" IN
    IF Abs(delta) >= 2
    THEN [prefix |-> delta_sign, minus |-> delta < 0, scaled |-> 5 * Abs(delta),
          decimals |-> 1, suffix |-> "pp"]
    ELSE [prefix |-> delta_sign, minus |-> delta < 0, scaled |-> 50 * Abs(delta),
          decimals |-> 2, suffix |-> "pp"]

\* Lines 232-286: the comparison proper.  The outcome of the call and the
\* number of divisions it executed; the division raises before anything
\* after it runs.
compare_with_national(local_value, national_value, metric_type) ==
    LET delta == local_value - national_value
        ratio == TrueDiv(local_value, national_value)
    IN  IF ratio.raised # "no" THEN [outcome |-> ratio, divisions |-> 1]
        ELSE LET c == performance_category(local_value, national_value, metric_type)
             IN  [outcome |-> Return([category |-> c.category, color |-> c.color,
                                      delta |-> delta,
                                      delta_formatted |-> format_delta(delta),
                                      performance_ratio |-> ratio.value,
                                      local_value |-> local_value,
                                      national_value |-> national_value]),
                  divisions |-> 1]

\* Mutant of calculate_performance_vs_national: the national_value == 0
\* guard left out.
calculate_performance_vs_national_Unguarded(local_value, national_value, metric_type) ==
    compare_with_national(local_value, national_value, metric_type)

calculate_performance_vs_national(local_value, national_value, metric_type) ==
    IF national_value = 0 THEN
        [outcome |-> Return([category |-> "No Comparison", color |-> "#cccccc",
                             delta |-> 0, delta_formatted |-> [text |-> "N/A"],
                             performance_ratio |-> [num |-> 1, den |-> 1]]),
         divisions |-> 0]
    ELSE compare_with_national(local_value, national_value, metric_type)

-----------------------------------------------------------------------------
(* Inputs.                                                                 *)

\* How far around each cutoff the sampled numbers go.
Near == 1
\* Ranges of local_value and national_value, in halves.
MaxLocal == 28
MaxNational == 20
MaxNegative == 3

Around(S) == {c + k : c \in S, k \in -Near..Near}

Levels == {"critical", "high", "moderate", "low", "minimal"}

Dimensions == {"habitat_loss", "annual_decline", "transformation", "protection_gap"}

RiskTypes == Dimensions \cup {"", "habitat", "HABITAT_LOSS"}

RiskValues ==
    Around({0, 10000} \cup {ThresholdTable[d][l] : d \in Dimensions, l \in Levels})

ThreatCodes == {"CR", "EN", "VU", "NT", "LC", "", "DD", "cr"}

ProtectionCodes == {"NP", "PP", "MP", "WP", "", "Unknown"}

DeclineValues == Around({0, 5, 10, 20, 30}) \cup {25, 35, 100}

TransformationValues == Around({0, 1500, 2500, 5000, 10000}) \cup {3000, 5100}

NaturalValues == Around({0, 3000, 5000, 7000, 10000}) \cup {2000, 8000}

MetricTypes == {"threat", "decline", "transformation", "loss",
                "habitat", "protection", "natural", "default", "", "Threat"}

\* Codes handed to the two catalogue lookups.
ThreatLookupCodes == ThreatCodes \cup {NoneCode, "Unknown", "WP"}

ProtectionLookupCodes == ProtectionCodes \cup {NoneCode, "wp", "CR"}

\* Decline rates around the 0.1 and 0.2 of assess_risk_trajectory.
TrajectoryDeclineValues == Around({0, 10, 20}) \cup {35}

\* The biomes, bioregions and ecosystems of the sample table: each bioregion
\* lies in one biome, each ecosystem in one bioregion.
Biomes == {"Fynbos", "Savanna"}

BioregionBiome ==
    [East_Coast_Renosterveld |-> "Fynbos", Southwest_Fynbos |-> "Fynbos",
     Lowveld |-> "Savanna"]

EcosystemBioregion ==
    [Overberg_Sandstone_Fynbos |-> "Southwest_Fynbos",
     Cape_Flats_Sand_Fynbos |-> "Southwest_Fynbos",
     Eastern_Ruens_Shale_Renosterveld |-> "East_Coast_Renosterveld",
     Granite_Lowveld |-> "Lowveld"]

Bioregions == DOMAIN BioregionBiome

Ecosystems == DOMAIN EcosystemBioregion

\* Every dict of the three selections, consistent with the table or not.
Selections ==
    [biome : Biomes \cup {"All Biomes"}, bioregion : Bioregions \cup {"All Bioregions"},
     ecosystem : Ecosystems \cup {"All Ecosystems"}]

\* Tables for get_crisis_ecosystems: one row at every band boundary, and
\* tables of up to MaxRows rows out of a few, with a tie, a NULL name and a
\* blank biome among them.
MaxRows == 2

CrisisBoundaryRows ==
    [name_18 : {"Granite_Lowveld"}, biome_18 : {"Savanna"}, rlev5 : ThreatCodes,
     prcdelyear : DeclineValues,
     pcnat2014 : {10000 - t : t \in TransformationValues \cap 0..10000}]

CrisisSampleRows ==
    { [name_18 |-> "Cape_Flats_Sand_Fynbos", biome_18 |-> "Fynbos", rlev5 |-> "CR",
       prcdelyear |-> 31, pcnat2014 |-> 4000],
      [name_18 |-> "Overberg_Sandstone_Fynbos", biome_18 |-> "Fynbos", rlev5 |-> "CR",
       prcdelyear |-> 31, pcnat2014 |-> 3000],
      [name_18 |-> "Granite_Lowveld", biome_18 |-> "Savanna", rlev5 |-> "LC",
       prcdelyear |-> 5, pcnat2014 |-> 8500],
      [name_18 |-> "Eastern_Ruens_Shale_Renosterveld", biome_18 |-> " ",
       rlev5 |-> "EN", prcdelyear |-> 30, pcnat2014 |-> 5000],
      [name_18 |-> NoneCode, biome_18 |-> "Fynbos", rlev5 |-> "EN",
       prcdelyear |-> 30, pcnat2014 |-> 5000] }

CrisisTables ==
    {<<r>> : r \in CrisisBoundaryRows}
    \cup UNION {[1..n -> CrisisSampleRows] : n \in 0..MaxRows}

\* Rows of get_ecosystem_details for one biome: two rows that tie on the
\* decline rate, rows with a NULL decline rate, threatened and other rows.
DetailRows ==
    { [name_18 |-> "Cape_Flats_Sand_Fynbos", rlev5 |-> "CR", prcdelyear |-> <<30>>,
       pcnat2014 |-> <<2000>>],
      [name_18 |-> "Eastern_Ruens_Shale_Renosterveld", rlev5 |-> "EN",
       prcdelyear |-> <<10>>, pcnat2014 |-> <<4000>>],
      [name_18 |-> "Overberg_Sandstone_Fynbos", rlev5 |-> "LC", prcdelyear |-> <<30>>,
       pcnat2014 |-> <<9000>>],
      [name_18 |-> "Granite_Lowveld", rlev5 |-> "VU", prcdelyear |-> <<>>,
       pcnat2014 |-> <<7000>>],
      [name_18 |-> "Southwest_Fynbos_Mosaic", rlev5 |-> "EN", prcdelyear |-> <<>>,
       pcnat2014 |-> <<>>] }

DetailTables == UNION {[1..n -> DetailRows] : n \in 0..MaxRows}

LocalValues == -MaxNegative..MaxLocal

NationalValues == -MaxNegative..MaxNational

-----------------------------------------------------------------------------
(* The state machine: one call of one function, on inputs chosen at the    *)
(* start.  The tables are module globals; no function assigns them.        *)

\* Nothing of the sidebar or of the database layer has run.
NoSidebar ==
    /\ session_state = EmptyDict
    /\ selected = NoneSelected

NoDatabase ==
    /\ db_engine = "None"
    /\ query_cache = EmptyDict
    /\ health_status = EmptyDict

Init ==
    /\ ECOSYSTEM_RISK_THRESHOLDS = ThresholdTable
    /\ THREAT_LEVELS = ThreatLevelTable
    /\ RISK_COLORS = RiskColorTable
    /\ pc = "ready"
    /\ ret = Pending
    /\ divisions = 0
    /\ ret_object = FreshObject
    /\ history = <<>>
    /\ NoSidebar
    /\ NoDatabase
    /\ \/ /\ fn \in {"get_risk_level_by_threshold", "get_risk_color_by_threshold"}
          /\ arg \in [risk_type : RiskTypes, value : RiskValues]
       \/ /\ fn = "calculate_composite_risk_score"
          /\ arg \in [iucn_code : ThreatCodes, annual_decline : DeclineValues,
                      transformation_pct : TransformationValues]
       \/ /\ fn = "categorize_ecosystem_urgency"
          /\ arg \in [iucn_code : ThreatCodes, annual_decline : DeclineValues,
                      current_natural : NaturalValues,
                      protection_level : ProtectionCodes]
       \/ /\ fn = "calculate_performance_vs_national"
          /\ arg \in [local_value : LocalValues, national_value : NationalValues,
                      metric_type : MetricTypes]
       \/ /\ fn = "get_threat_level_info"
          /\ arg \in [threat_code : ThreatLookupCodes]
       \/ /\ fn = "get_protection_level_info"
          /\ arg \in [protection_code : ProtectionLookupCodes]
       \/ /\ fn = "get_biome_risk_summary"
          /\ arg \in [biome : Biomes, rows : DetailTables]
       \/ /\ fn = "get_crisis_ecosystems"
          /\ arg \in [table : CrisisTables, limit : 1..MaxRows]
       \/ /\ fn = "calculate_performance_category"
          /\ arg \in [local_value : LocalValues, national_value : NationalValues,
                      metric_type : MetricTypes]
       \/ /\ fn = "get_selection_level"
          /\ arg \in [selections : Selections]
       \/ /\ fn = "assess_risk_trajectory"
          /\ arg \in [current_natural : NaturalValues,
                      annual_decline : TrajectoryDeclineValues,
                      protection_level : ProtectionCodes]

GetRiskLevelByThreshold ==
    /\ pc = "ready"
    /\ fn = "get_risk_level_by_threshold"
    /\ ret' = Return(get_risk_level_by_threshold(arg.risk_type, arg.value))
    /\ divisions' = 0
    /\ pc' = "done"
    /\ ret_object' = FreshObject
    /\ history' = Append(history, [fn |-> fn, arg |-> arg, ret |-> ret'])
    /\ UNCHANGED <<tables, fn, arg, filter_vars, data_vars>>

GetRiskColorByThreshold ==
    /\ pc = "ready"
    /\ fn = "get_risk_color_by_threshold"
    /\ ret' = Return(get_risk_color_by_threshold(arg.risk_type, arg.value))
    /\ divisions' = 0
    /\ pc' = "done"
    /\ ret_object' = FreshObject
    /\ history' = Append(history, [fn |-> fn, arg |-> arg, ret |-> ret'])
    /\ UNCHANGED <<tables, fn, arg, filter_vars, data_vars>>

\* Mutant of CalculateCompositeRiskScore: the score starts from a count of
\* the calls made so far instead of from 0.
CalculateCompositeRiskScore_Counting ==
    /\ pc = "ready"
    /\ fn = "calculate_composite_risk_score"
    /\ ret' = Return(Len(history)
                     + calculate_composite_risk_score(arg.iucn_code, arg.annual_decline,
                                                      arg.transformation_pct))
    /\ divisions' = 0
    /\ pc' = "done"
    /\ ret_object' = FreshObject
    /\ history' = Append(history, [fn |-> fn, arg |-> arg, ret |-> ret'])
    /\ UNCHANGED <<tables, fn, arg, filter_vars, data_vars>>

CalculateCompositeRiskScore ==
    /\ pc = "ready"
    /\ fn = "calculate_composite_risk_score"
    /\ ret' = Return(calculate_composite_risk_score(arg.iucn_code, arg.annual_decline,
                                                    arg.transformation_pct))
    /\ divisions' = 0
    /\ pc' = "done"
    /\ ret_object' = FreshObject
    /\ history' = Append(history, [fn |-> fn, arg |-> arg, ret |-> ret'])
    /\ UNCHANGED <<tables, fn, arg, filter_vars, data_vars>>

CategorizeEcosystemUrgency ==
    /\ pc = "ready"
    /\ fn = "categorize_ecosystem_urgency"
    /\ ret' = Return(categorize_ecosystem_urgency(arg.iucn_code, arg.annual_decline,
                                                  arg.current_natural,
                                                  arg.protection_level))
    /\ divisions' = 0
    /\ pc' = "done"
    /\ ret_object' = FreshObject
    /\ history' = Append(history, [fn |-> fn, arg |-> arg, ret |-> ret'])
    /\ UNCHANGED <<tables, fn, arg, filter_vars, data_vars>>

CalculatePerformanceVsNational ==
    /\ pc = "ready"
    /\ fn = "calculate_performance_vs_national"
    /\ LET r == calculate_performance_vs_national(arg.local_value, arg.national_value,
                                                  arg.metric_type)
       IN  /\ ret' = r.outcome
           /\ divisions' = r.divisions
    /\ pc' = "done"
    /\ ret_object' = FreshObject
    /\ history' = Append(history, [fn |-> fn, arg |-> arg, ret |-> ret'])
    /\ UNCHANGED <<tables, fn, arg, filter_vars, data_vars>>

\* Mutant of GetThreatLevelInfo: THREAT_LEVELS[threat_code] in place of
\* THREAT_LEVELS.get(threat_code, ...).
GetThreatLevelInfo_Subscript ==
    /\ pc = "ready"
    /\ fn = "get_threat_level_info"
    /\ ret' = IF arg.threat_code \in DOMAIN THREAT_LEVELS
              THEN Return(get_threat_level_info(arg.threat_code))
              ELSE Raise("KeyError")
    /\ divisions' = 0
    /\ pc' = "done"
    /\ ret_object' = threat_info_object(arg.threat_code)
    /\ history' = Append(history, [fn |-> fn, arg |-> arg, ret |-> ret'])
    /\ UNCHANGED <<tables, fn, arg, filter_vars, data_vars>>

GetThreatLevelInfo ==
    /\ pc = "ready"
    /\ fn = "get_threat_level_info"
    /\ ret' = Return(get_threat_level_info(arg.threat_code))
    /\ divisions' = 0
    /\ pc' = "done"
    /\ ret_object' = threat_info_object(arg.threat_code)
    /\ history' = Append(history, [fn |-> fn, arg |-> arg, ret |-> ret'])
    /\ UNCHANGED <<tables, fn, arg, filter_vars, data_vars>>

GetProtectionLevelInfo ==
    /\ pc = "ready"
    /\ fn = "get_protection_level_info"
    /\ ret' = Return(get_protection_level_info(arg.protection_code))
    /\ divisions' = 0
    /\ pc' = "done"
    /\ ret_object' = FreshObject
    /\ history' = Append(history, [fn |-> fn, arg |-> arg, ret |-> ret'])
    /\ UNCHANGED <<tables, fn, arg, filter_vars, data_vars>>

AssessRiskTrajectory ==
    /\ pc = "ready"
    /\ fn = "assess_risk_trajectory"
    /\ ret' = Return(assess_risk_trajectory(arg.current_natural, arg.annual_decline,
                                            arg.protection_level))
    /\ divisions' = 0
    /\ pc' = "done"
    /\ ret_object' = FreshObject
    /\ history' = Append(history, [fn |-> fn, arg |-> arg, ret |-> ret'])
    /\ UNCHANGED <<tables, fn, arg, filter_vars, data_vars>>

GetSelectionLevel ==
    /\ pc = "ready"
    /\ fn = "get_selection_level"
    /\ ret' = Return(get_selection_level(arg.selections))
    /\ divisions' = 0
    /\ pc' = "done"
    /\ ret_object' = FreshObject
    /\ history' = Append(history, [fn |-> fn, arg |-> arg, ret |-> ret'])
    /\ UNCHANGED <<tables, fn, arg, filter_vars, data_vars>>

CalculatePerformanceCategory ==
    /\ pc = "ready"
    /\ fn = "calculate_performance_category"
    /\ ret' = Return(calculate_performance_category(arg.local_value, arg.national_value,
                                                    arg.metric_type))
    /\ divisions' = IF arg.national_value = 0 THEN 0 ELSE 1
    /\ pc' = "done"
    /\ ret_object' = FreshObject
    /\ history' = Append(history, [fn |-> fn, arg |-> arg, ret |-> ret'])
    /\ UNCHANGED <<tables, fn, arg, filter_vars, data_vars>>

GetCrisisEcosystems ==
    /\ pc = "ready"
    /\ fn = "get_crisis_ecosystems"
    /\ \E result \in get_crisis_ecosystems(arg.table, arg.limit) : ret' = Return(result)
    /\ divisions' = 0
    /\ pc' = "done"
    /\ ret_object' = FreshObject
    /\ history' = Append(history, [fn |-> fn, arg |-> arg, ret |-> ret'])
    /\ UNCHANGED <<tables, fn, arg, filter_vars, data_vars>>

GetBiomeRiskSummary ==
    /\ pc = "ready"
    /\ fn = "get_biome_risk_summary"
    /\ ret' \in get_biome_risk_summary(arg.biome, arg.rows)
    /\ divisions' = 0
    /\ pc' = "done"
    /\ ret_object' = FreshObject
    /\ history' = Append(history, [fn |-> fn, arg |-> arg, ret |-> ret'])
    /\ UNCHANGED <<tables, fn, arg, filter_vars, data_vars>>

\* A call of one of the functions of utils/risk_calculations.py.
CoreCall ==
    \/ AssessRiskTrajectory
    \/ GetThreatLevelInfo
    \/ GetProtectionLevelInfo
    \/ GetRiskLevelByThreshold
    \/ GetRiskColorByThreshold
    \/ CalculateCompositeRiskScore
    \/ CategorizeEcosystemUrgency
    \/ CalculatePerformanceVsNational

Next ==
    \/ CoreCall
    \/ GetBiomeRiskSummary
    \/ GetCrisisEcosystems
    \/ CalculatePerformanceCategory
    \/ GetSelectionLevel

Spec == Init /\ [][Next]_vars

-----------------------------------------------------------------------------
(* A session: up to MaxCalls calls one after another, in any order, by a   *)
(* caller that may write into the dicts it gets back.                      *)

MaxCalls == 3

SessionFunctions ==
    {"get_risk_level_by_threshold", "get_risk_color_by_threshold",
     "get_threat_level_info", "get_protection_level_info",
     "assess_risk_trajectory", "calculate_composite_risk_score",
     "categorize_ecosystem_urgency", "calculate_performance_vs_national"}

\* The arguments a session calls f with.
SessionArgs(f) ==
    CASE f \in {"get_risk_level_by_threshold", "get_risk_color_by_threshold"} ->
            [risk_type : {"habitat_loss", ""}, value : {200}]
      [] f = "get_threat_level_info" -> [threat_code : {"CR", "DD"}]
      [] f = "get_protection_level_info" -> [protection_code : {"NP", "Unknown"}]
      [] f = "assess_risk_trajectory" ->
            [current_natural : {2000}, annual_decline : {21}, protection_level : {"NP"}]
      [] f = "calculate_composite_risk_score" ->
            [iucn_code : {"EN"}, annual_decline : {31}, transformation_pct : {3000}]
      [] f = "categorize_ecosystem_urgency" ->
            [iucn_code : {"CR"}, annual_decline : {31}, current_natural : {2000},
             protection_level : {"NP"}]
      [] f = "calculate_performance_vs_national" ->
            [local_value : {22}, national_value : {0, 20}, metric_type : {"default"}]

InitSeq ==
    /\ ECOSYSTEM_RISK_THRESHOLDS = ThresholdTable
    /\ THREAT_LEVELS = ThreatLevelTable
    /\ RISK_COLORS = RiskColorTable
    /\ pc = "ready"
    /\ ret = Pending
    /\ divisions = 0
    /\ ret_object = FreshObject
    /\ history = <<>>
    /\ NoSidebar
    /\ NoDatabase
    /\ fn \in SessionFunctions
    /\ arg \in SessionArgs(fn)

\* The caller makes its next call.
NextCall ==
    /\ pc = "done"
    /\ Len(history) < MaxCalls
    /\ \E f \in SessionFunctions :
          /\ fn' = f
          /\ arg' \in SessionArgs(f)
    /\ pc' = "ready"
    /\ ret' = Pending
    /\ divisions' = 0
    /\ ret_object' = FreshObject
    /\ UNCHANGED <<tables, history, filter_vars, data_vars>>

\* Functions whose result is a dict with a 'color' entry.
ColoredResults ==
    {"get_threat_level_info", "get_protection_level_info",
     "categorize_ecosystem_urgency", "calculate_performance_vs_national"}

\* The caller assigns result['color'].  The assignment lands in the object
\* the call returned: in an entry of THREAT_LEVELS too if that is the object.
ModifyReturned ==
    /\ pc = "done"
    /\ ret.raised = "no"
    /\ fn \in ColoredResults
    /\ ret.value.color # "#000000"
    /\ ret' = [ret EXCEPT !.value.color = "#000000"]
    /\ THREAT_LEVELS' =
          IF ret_object.shared
          THEN [THREAT_LEVELS EXCEPT ![ret_object.key].color = "#000000"]
          ELSE THREAT_LEVELS
    /\ UNCHANGED <<ECOSYSTEM_RISK_THRESHOLDS, RISK_COLORS, pc, fn, arg, divisions,
                   ret_object, history, filter_vars, data_vars>>

NextSeq ==
    \/ CoreCall
    \/ NextCall
    \/ ModifyReturned

SpecSeq == InitSeq /\ [][NextSeq]_vars

-----------------------------------------------------------------------------
(* GeographicFilter.create_filter_sidebar: one run of the script after     *)
(* another on the same session.  A selectbox returns whichever of its      *)
(* options the user has picked; each read of the data layer gives rows, an *)
(* empty DataFrame, or raises.                                             *)

DataOutcomes == {"rows", "empty", "raise"}

\* The rows of the three queries, as the sets of names they hold.
bioregions_of(biome) == {r \in Bioregions : BioregionBiome[r] = biome}

ecosystems_of(biome, bioregion) ==
    {e \in Ecosystems :
        /\ BioregionBiome[EcosystemBioregion[e]] = biome
        /\ bioregion # "All Bioregions" => EcosystemBioregion[e] = bioregion}

geo_selections == session_state.geo_selections

InitFilter ==
    /\ ECOSYSTEM_RISK_THRESHOLDS = ThresholdTable
    /\ THREAT_LEVELS = ThreatLevelTable
    /\ RISK_COLORS = RiskColorTable
    /\ pc = "ready"
    /\ fn = "create_filter_sidebar"
    /\ arg = EmptyDict
    /\ ret = Pending
    /\ divisions = 0
    /\ ret_object = FreshObject
    /\ history = <<>>
    /\ NoSidebar
    /\ NoDatabase

\* Lines 28-33: the selection is created on the first run of a session.
InitializeSelection ==
    /\ pc = "ready"
    /\ fn = "create_filter_sidebar"
    /\ session_state' =
          IF "geo_selections" \in DOMAIN session_state THEN session_state
          ELSE [geo_selections |-> [biome |-> "All Biomes", bioregion |-> "All Bioregions",
                                    ecosystem |-> "All Ecosystems"]]
    /\ pc' = "biome"
    /\ UNCHANGED <<tables, fn, arg, ret, divisions, ret_object, history, selected,
                   data_vars>>

\* Mutant of CreateBiomeSelector: the dependent selections are left as they
\* are when the biome changes.
CreateBiomeSelector_NoReset ==
    /\ pc = "biome"
    /\ \E outcome \in DataOutcomes :
          IF outcome = "rows" /\ Biomes # {}
          THEN \E selected_biome \in {"All Biomes"} \cup Biomes :
                  /\ selected' = [selected EXCEPT !.biome = selected_biome,
                                                  !.shown = @ \cup {"biome"}]
                  /\ session_state' = session_state
          ELSE /\ selected' = [selected EXCEPT !.biome = "All Biomes"]
               /\ session_state' = session_state
    /\ pc' = "bioregion"
    /\ UNCHANGED <<tables, fn, arg, ret, divisions, ret_object, history, data_vars>>

\* _create_biome_selector.
CreateBiomeSelector ==
    /\ pc = "biome"
    /\ \E outcome \in DataOutcomes :
          IF outcome = "rows" /\ Biomes # {}
          THEN \E selected_biome \in {"All Biomes"} \cup Biomes :
                  /\ selected' = [selected EXCEPT !.biome = selected_biome,
                                                  !.shown = @ \cup {"biome"}]
                  /\ session_state' =
                        IF selected_biome # geo_selections.biome
                        THEN [session_state EXCEPT
                                 !.geo_selections.bioregion = "All Bioregions",
                                 !.geo_selections.ecosystem = "All Ecosystems"]
                        ELSE session_state
          ELSE /\ selected' = [selected EXCEPT !.biome = "All Biomes"]
               /\ session_state' = session_state
    /\ pc' = "bioregion"
    /\ UNCHANGED <<tables, fn, arg, ret, divisions, ret_object, history, data_vars>>

\* _create_bioregion_selector.
CreateBioregionSelector ==
    /\ pc = "bioregion"
    /\ IF selected.biome = "All Biomes"
       THEN /\ selected' = [selected EXCEPT !.bioregion = "All Bioregions"]
            /\ session_state' = session_state
       ELSE \E outcome \in DataOutcomes :
               IF outcome = "rows" /\ bioregions_of(selected.biome) # {}
               THEN \E selected_bioregion \in
                           {"All Bioregions"} \cup bioregions_of(selected.biome) :
                       /\ selected' = [selected EXCEPT !.bioregion = selected_bioregion,
                                                       !.shown = @ \cup {"bioregion"}]
                       /\ session_state' =
                             IF selected_bioregion # geo_selections.bioregion
                             THEN [session_state EXCEPT
                                      !.geo_selections.ecosystem = "All Ecosystems"]
                             ELSE session_state
               ELSE /\ selected' = [selected EXCEPT !.bioregion = "All Bioregions"]
                    /\ session_state' = session_state
    /\ pc' = "ecosystem"
    /\ UNCHANGED <<tables, fn, arg, ret, divisions, ret_object, history, data_vars>>

\* _create_ecosystem_selector.
CreateEcosystemSelector ==
    /\ pc = "ecosystem"
    /\ IF selected.biome = "All Biomes"
       THEN selected' = [selected EXCEPT !.ecosystem = "All Ecosystems"]
       ELSE \E outcome \in DataOutcomes :
               IF outcome = "rows" /\ ecosystems_of(selected.biome, selected.bioregion) # {}
               THEN \E selected_ecosystem \in
                           {"All Ecosystems"}
                           \cup ecosystems_of(selected.biome, selected.bioregion) :
                       selected' = [selected EXCEPT !.ecosystem = selected_ecosystem,
                                                    !.shown = @ \cup {"ecosystem"}]
               ELSE selected' = [selected EXCEPT !.ecosystem = "All Ecosystems"]
    /\ pc' = "update"
    /\ UNCHANGED <<tables, fn, arg, ret, divisions, ret_object, history, session_state,
                   data_vars>>

\* Mutant of UpdateAndReturn: the bioregion is not written back.
UpdateAndReturn_BioregionKept ==
    /\ pc = "update"
    /\ session_state' = [session_state EXCEPT
                            !.geo_selections.biome = selected.biome,
                            !.geo_selections.ecosystem = selected.ecosystem]
    /\ ret' = Return([biome |-> selected.biome, bioregion |-> selected.bioregion,
                      ecosystem |-> selected.ecosystem])
    /\ pc' = "done"
    /\ UNCHANGED <<tables, fn, arg, divisions, ret_object, history, selected, data_vars>>

\* Lines 44-58: the three selections are written to the session and returned.
UpdateAndReturn ==
    /\ pc = "update"
    /\ session_state' = [session_state EXCEPT
                            !.geo_selections.biome = selected.biome,
                            !.geo_selections.bioregion = selected.bioregion,
                            !.geo_selections.ecosystem = selected.ecosystem]
    /\ ret' = Return([biome |-> selected.biome, bioregion |-> selected.bioregion,
                      ecosystem |-> selected.ecosystem])
    /\ pc' = "done"
    /\ UNCHANGED <<tables, fn, arg, divisions, ret_object, history, selected, data_vars>>

\* The user touches a widget and Streamlit runs the script again.
Rerun ==
    /\ pc = "done"
    /\ fn = "create_filter_sidebar"
    /\ pc' = "ready"
    /\ ret' = Pending
    /\ selected' = NoneSelected
    /\ UNCHANGED <<tables, fn, arg, divisions, ret_object, history, session_state,
                   data_vars>>

NextFilter ==
    \/ InitializeSelection
    \/ CreateBiomeSelector
    \/ CreateBioregionSelector
    \/ CreateEcosystemSelector
    \/ UpdateAndReturn
    \/ Rerun

SpecFilter == InitFilter /\ [][NextFilter]_vars

-----------------------------------------------------------------------------
(* data/database.py and CacheManager.get_national_summary.  A DataFrame is *)
(* held as whether it is empty and, if not, its first cell (a count, or 1  *)
(* and 0 for the true and false of SELECT EXISTS).                         *)

EmptyFrame == [empty |-> TRUE, cell |-> 0]

Frames == {EmptyFrame, [empty |-> FALSE, cell |-> 0], [empty |-> FALSE, cell |-> 1]}

\* A normal return, with the exception the function caught and logged on
\* the way ("none" if none, "cached" if the cache answered).
Returned(v, caught) == [raised |-> "no", value |-> v, caught |-> caught]

\* What the body of `with _self.engine.connect() as conn: read(...)' can do:
\* the engine property fails to create the engine (only while _engine is
\* None), connect() fails, the read fails, or the read gives a frame.
query_attempts ==
    {[failed |-> "engine", frame |-> EmptyFrame, engine |-> "None"] :
        x \in IF db_engine = "None" THEN {"create_engine"} ELSE {}}
    \cup {[failed |-> f, frame |-> EmptyFrame, engine |-> "engine"] :
            f \in {"connect", "query"}}
    \cup {[failed |-> "none", frame |-> f, engine |-> "engine"] : f \in Frames}

\* Mutant of execute_query: no except clause, so a failure leaves the
\* function as the exception it is.
execute_query_Uncaught(query) ==
    IF query \in DOMAIN query_cache
    THEN {[ret |-> Returned(query_cache[query], "cached"), engine |-> db_engine,
           cache |-> query_cache]}
    ELSE {IF a.failed = "none"
          THEN [ret |-> Returned(a.frame, "none"), engine |-> a.engine,
                cache |-> (query :> a.frame) @@ query_cache]
          ELSE [ret |-> [raised |-> "OperationalError", caught |-> "none"],
                engine |-> a.engine, cache |-> query_cache] : a \in query_attempts}

\* execute_query under st.cache_data: every way the call can go, as what it
\* returns, the engine it leaves and the cache it leaves.  The value
\* returned after a failure is cached like any other.
execute_query(query) ==
    IF query \in DOMAIN query_cache
    THEN {[ret |-> Returned(query_cache[query], "cached"), engine |-> db_engine,
           cache |-> query_cache]}
    ELSE {[ret |-> Returned(a.frame, a.failed), engine |-> a.engine,
           cache |-> (query :> a.frame) @@ query_cache] : a \in query_attempts}

\* execute_spatial_query: the same with gpd.read_postgis and an empty
\* GeoDataFrame.
execute_spatial_query(query) ==
    IF query \in DOMAIN query_cache
    THEN {[ret |-> Returned(query_cache[query], "cached"), engine |-> db_engine,
           cache |-> query_cache]}
    ELSE {[ret |-> Returned(a.frame, a.failed), engine |-> a.engine,
           cache |-> (query :> a.frame) @@ query_cache] : a \in query_attempts}

\* result.iloc[0].to_dict() if not result.empty else {}.
first_row_or_empty(frame) ==
    IF frame.empty THEN EmptyDict ELSE [total_ecosystems |-> frame.cell]

\* CacheManager.get_national_summary under st.cache_data.
get_national_summary ==
    IF "get_national_summary" \in DOMAIN query_cache
    THEN {[ret |-> Returned(query_cache["get_national_summary"], "cached"),
           engine |-> db_engine, cache |-> query_cache]}
    ELSE {IF o.ret.raised # "no" THEN o
          ELSE LET summary == first_row_or_empty(o.ret.value)
               IN  [ret |-> Returned(summary, o.ret.caught), engine |-> o.engine,
                    cache |-> ("get_national_summary" :> summary) @@ o.cache] :
             o \in execute_query("national_summary")}

\* test_connection: True if SELECT 1 came back, False on any exception.
test_connection ==
    {[ok |-> FALSE, engine |-> "None"] :
        x \in IF db_engine = "None" THEN {"create_engine"} ELSE {}}
    \cup {[ok |-> b, engine |-> "engine"] : b \in BOOLEAN}

InitialHealth ==
    [connection |-> FALSE, table_exists |-> FALSE, data_available |-> FALSE,
     spatial_data |-> FALSE, error_message |-> <<>>]

DataFunctions ==
    {"execute_query", "execute_spatial_query", "get_national_summary",
     "check_database_health"}

DataArgs(f) ==
    CASE f = "execute_query" -> [query : {"national_summary", "count"}]
      [] f = "execute_spatial_query" -> [query : {"biome_boundaries"}]
      [] OTHER -> {EmptyDict}

InitData ==
    /\ ECOSYSTEM_RISK_THRESHOLDS = ThresholdTable
    /\ THREAT_LEVELS = ThreatLevelTable
    /\ RISK_COLORS = RiskColorTable
    /\ pc = "ready"
    /\ fn \in DataFunctions
    /\ arg \in DataArgs(fn)
    /\ ret = Pending
    /\ divisions = 0
    /\ ret_object = FreshObject
    /\ history = <<>>
    /\ NoSidebar
    /\ NoDatabase

ExecuteQuery ==
    /\ pc = "ready"
    /\ fn = "execute_query"
    /\ \E o \in execute_query(arg.query) :
          /\ ret' = o.ret
          /\ db_engine' = o.engine
          /\ query_cache' = o.cache
    /\ pc' = "done"
    /\ UNCHANGED <<tables, fn, arg, divisions, ret_object, history, filter_vars,
                   health_status>>

ExecuteSpatialQuery ==
    /\ pc = "ready"
    /\ fn = "execute_spatial_query"
    /\ \E o \in execute_spatial_query(arg.query) :
          /\ ret' = o.ret
          /\ db_engine' = o.engine
          /\ query_cache' = o.cache
    /\ pc' = "done"
    /\ UNCHANGED <<tables, fn, arg, divisions, ret_object, history, filter_vars,
                   health_status>>

GetNationalSummary ==
    /\ pc = "ready"
    /\ fn = "get_national_summary"
    /\ \E o \in get_national_summary :
          /\ ret' = o.ret
          /\ db_engine' = o.engine
          /\ query_cache' = o.cache
    /\ pc' = "done"
    /\ UNCHANGED <<tables, fn, arg, divisions, ret_object, history, filter_vars,
                   health_status>>

\* check_database_health, lines 127-141: the status starts all False and the
\* connection is tested.
CheckConnection ==
    /\ pc = "ready"
    /\ fn = "check_database_health"
    /\ \E t \in test_connection :
          /\ health_status' = [InitialHealth EXCEPT !.connection = t.ok]
          /\ db_engine' = t.engine
          /\ pc' = IF t.ok THEN "table" ELSE "return"
    /\ UNCHANGED <<tables, fn, arg, ret, divisions, ret_object, history, filter_vars,
                   query_cache>>

\* One guarded step of check_database_health: `query' is run and `flag' set
\* from its first cell, then the check goes on to `next' (if `guarded', only
\* when the flag came out true); or something in the step raises and the
\* except clause records it.
HealthStep(query, flag, next, guarded) ==
    \/ \E o \in execute_query(query) :
          LET value == IF o.ret.value.empty THEN FALSE ELSE o.ret.value.cell > 0
          IN  /\ o.ret.raised = "no"
              /\ health_status' = [health_status EXCEPT ![flag] = value]
              /\ db_engine' = o.engine
              /\ query_cache' = o.cache
              /\ pc' = IF guarded => value THEN next ELSE "return"
    \/ /\ health_status' = [health_status EXCEPT !.error_message = <<query>>]
       /\ pc' = "return"
       /\ UNCHANGED <<db_engine, query_cache>>

\* Mutant of CheckTable: the data checks are run whether or not the table
\* exists.
CheckTable_Unnested ==
    /\ pc = "table"
    /\ HealthStep("table_check", "table_exists", "data", FALSE)
    /\ UNCHANGED <<tables, fn, arg, ret, divisions, ret_object, history, filter_vars>>

\* Lines 142-153.
CheckTable ==
    /\ pc = "table"
    /\ HealthStep("table_check", "table_exists", "data", TRUE)
    /\ UNCHANGED <<tables, fn, arg, ret, divisions, ret_object, history, filter_vars>>

\* Lines 154-158.
CheckData ==
    /\ pc = "data"
    /\ HealthStep("count", "data_available", "spatial", FALSE)
    /\ UNCHANGED <<tables, fn, arg, ret, divisions, ret_object, history, filter_vars>>

\* Lines 160-167.
CheckSpatial ==
    /\ pc = "spatial"
    /\ HealthStep("spatial_count", "spatial_data", "return", FALSE)
    /\ UNCHANGED <<tables, fn, arg, ret, divisions, ret_object, history, filter_vars>>

\* Line 173.
ReturnHealth ==
    /\ pc = "return"
    /\ ret' = Return(health_status)
    /\ pc' = "done"
    /\ UNCHANGED <<tables, fn, arg, divisions, ret_object, history, filter_vars,
                   data_vars>>

\* An entry of st.cache_data reaches its ttl.
CacheExpire ==
    /\ \E q \in DOMAIN query_cache :
          query_cache' = [k \in DOMAIN query_cache \ {q} |-> query_cache[k]]
    /\ UNCHANGED <<tables, pc, fn, arg, ret, divisions, ret_object, history,
                   filter_vars, db_engine, health_status>>

\* The application makes its next call into the data layer; the engine and
\* the cache live on, the health status of a finished check was a local.
NextRequest ==
    /\ pc = "done"
    /\ fn' \in DataFunctions
    /\ arg' \in DataArgs(fn')
    /\ pc' = "ready"
    /\ ret' = Pending
    /\ health_status' = EmptyDict
    /\ UNCHANGED <<tables, divisions, ret_object, history, filter_vars, db_engine,
                   query_cache>>

NextData ==
    \/ ExecuteQuery
    \/ ExecuteSpatialQuery
    \/ GetNationalSummary
    \/ CheckConnection
    \/ CheckTable
    \/ CheckData
    \/ CheckSpatial
    \/ ReturnHealth
    \/ CacheExpire
    \/ NextRequest

SpecData == InitData /\ [][NextData]_vars

-----------------------------------------------------------------------------
(* Properties.                                                             *)

Done(f) == pc = "done" /\ fn = f

\* The cutoffs in the order the classifier scans them.
ScanOrder == <<"critical", "high", "moderate", "low">>

SeverityRank(level) ==
    CASE level = "minimal"  -> 0
      [] level = "low"      -> 1
      [] level = "moderate" -> 2
      [] level = "high"     -> 3
      [] level = "critical" -> 4

C2_Monotone ==
    (Done("get_risk_level_by_threshold") /\ arg.risk_type \in Dimensions) =>
        \A v1 \in RiskValues :
            v1 < arg.value =>
                SeverityRank(get_risk_level_by_threshold(arg.risk_type, v1))
                    <= SeverityRank(ret.value)

\* A value classified high while a smaller sampled value is classified low.
C2_Witness ==
    /\ Done("get_risk_level_by_threshold")
    /\ arg.risk_type = "transformation"
    /\ ret = Return("high")
    /\ \E v1 \in RiskValues :
          /\ v1 < arg.value
          /\ get_risk_level_by_threshold("transformation", v1) = "low"

\* C3: for a dimension that is none of the four, and any value, the
\* classifier returns minimal without raising and the color function returns
\* the color of minimal.
C3_UnknownDimensionMinimal ==
    /\ (Done("get_risk_level_by_threshold") /\ arg.risk_type \notin Dimensions) =>
          /\ ret.raised = "no"
          /\ ret.value = "minimal"
    /\ (Done("get_risk_color_by_threshold") /\ arg.risk_type \notin Dimensions) =>
          /\ ret.raised = "no"
          /\ ret.value = RISK_COLORS["minimal"]

\* An unrecognized dimension has been colored, for a value that is critical
\* in every recognized dimension.
C3_Witness ==
    /\ Done("get_risk_color_by_threshold")
    /\ arg = [risk_type |-> "HABITAT_LOSS", value |-> 10000]
    /\ ret = Return("#abdda4")

\* C4: in the threshold table each of the four dimensions has exactly the
\* severities critical, high, moderate, low, minimal, with cutoffs strictly
\* decreasing in that order.
C4_TableStrictlyDecreasing ==
    /\ DOMAIN ECOSYSTEM_RISK_THRESHOLDS = Dimensions
    /\ \A d \in Dimensions :
          LET t == ECOSYSTEM_RISK_THRESHOLDS[d] IN
          /\ DOMAIN t = Levels
          /\ t["critical"] > t["high"]
          /\ t["high"] > t["moderate"]
          /\ t["moderate"] > t["low"]
          /\ t["low"] > t["minimal"]

\* The table as it stands after a call that read it.
C4_Witness ==
    /\ Done("get_risk_level_by_threshold")
    /\ arg.risk_type = "protection_gap"
    /\ ECOSYSTEM_RISK_THRESHOLDS["protection_gap"]["moderate"] = 4000
    /\ ECOSYSTEM_RISK_THRESHOLDS["protection_gap"]["low"] = 2000

\* The sub-scores as C5 states them.
C5_ThreatScore(code) ==
    CASE code = "CR" -> 50
      [] code = "EN" -> 30
      [] code = "VU" -> 15
      [] code = "NT" -> 5
      [] code = "LC" -> 0
      [] OTHER -> 0

C5_DeclineScore(d) ==
    IF d > 30 THEN 25 ELSE IF d > 20 THEN 15 ELSE IF d > 10 THEN 10
    ELSE IF d > 5 THEN 5 ELSE 0

C5_TransformationScore(t) ==
    IF t > 5000 THEN 25 ELSE IF t > 2500 THEN 15 ELSE IF t > 1500 THEN 10 ELSE 0

\* C5: the composite score is threat_score + decline_score +
\* transformation_score with the stated tables and strict bands; in
\* particular score(LC, 0, 0) = 0, score(CR, 0.31, 51) = 100 and
\* score(EN, 0.25, 30) = 60.
C5_CompositeIsSumOfBands ==
    Done("calculate_composite_risk_score") =>
        /\ ret.raised = "no"
        /\ ret.value = C5_ThreatScore(arg.iucn_code)
                       + C5_DeclineScore(arg.annual_decline)
                       + C5_TransformationScore(arg.transformation_pct)
        /\ arg = [iucn_code |-> "LC", annual_decline |-> 0, transformation_pct |-> 0]
              => ret.value = 0
        /\ arg = [iucn_code |-> "CR", annual_decline |-> 31, transformation_pct |-> 5100]
              => ret.value = 100
        /\ arg = [iucn_code |-> "EN", annual_decline |-> 25, transformation_pct |-> 3000]
              => ret.value = 60

\* score(EN, 0.25, 30) has returned 60.
C5_Witness ==
    /\ Done("calculate_composite_risk_score")
    /\ arg = [iucn_code |-> "EN", annual_decline |-> 25, transformation_pct |-> 3000]
    /\ ret = Return(60)

C6_Attained(score) ==
    \E c \in {"CR", "LC"}, d \in {0, 31}, t \in {0, 5001} :
        calculate_composite_risk_score(c, d, t) = score

\* C6: for every input, negative and out-of-range numbers included, the
\* composite score lies in [0, 100], and 0 and 100 are both attained.
C6_CompositeInRange ==
    Done("calculate_composite_risk_score") =>
        /\ ret.value >= 0
        /\ ret.value <= 100
        /\ C6_Attained(0)
        /\ C6_Attained(100)

\* The maximum has been returned for numbers beyond their documented ranges.
C6_Witness ==
    /\ Done("calculate_composite_risk_score")
    /\ arg.annual_decline = 100
    /\ arg.transformation_pct > 10000
    /\ ret = Return(100)

\* The contributions as C7 states them.
C7_ThreatContribution(code) ==
    CASE code = "CR" -> 4
      [] code = "EN" -> 3
      [] code = "VU" -> 2
      [] code = "NT" -> 1
      [] code = "LC" -> 0
      [] OTHER -> 0

C7_DeclineContribution(d) ==
    IF d > 30 THEN 3 ELSE IF d > 10 THEN 2 ELSE IF d > 5 THEN 1 ELSE 0

C7_HabitatContribution(n) ==
    IF n < 3000 THEN 3 ELSE IF n < 5000 THEN 2 ELSE IF n < 7000 THEN 1 ELSE 0

C7_ProtectionContribution(code) ==
    CASE code = "NP" -> 2
      [] code = "PP" -> 1
      [] code = "MP" -> 0
      [] code = "WP" -> -1
      [] OTHER -> 0

\* C7: urgency_score is the sum of the threat, decline, habitat and protection
\* contributions as stated; it is an integer in [-1, 12], -1 for
\* (LC, 0, 80, WP) and 12 for (CR, 0.35, 20, NP).
C7_UrgencyScoreIsSum ==
    Done("categorize_ecosystem_urgency") =>
        /\ ret.raised = "no"
        /\ ret.value.urgency_score =
              C7_ThreatContribution(arg.iucn_code)
              + C7_DeclineContribution(arg.annual_decline)
              + C7_HabitatContribution(arg.current_natural)
              + C7_ProtectionContribution(arg.protection_level)
        /\ ret.value.urgency_score \in -1..12
        /\ arg = [iucn_code |-> "LC", annual_decline |-> 0, current_natural |-> 8000,
                  protection_level |-> "WP"] => ret.value.urgency_score = -1
        /\ arg = [iucn_code |-> "CR", annual_decline |-> 35, current_natural |-> 2000,
                  protection_level |-> "NP"] => ret.value.urgency_score = 12

\* (LC, 0, 80, WP) has been assessed with the negative score.
C7_Witness ==
    /\ Done("categorize_ecosystem_urgency")
    /\ arg = [iucn_code |-> "LC", annual_decline |-> 0, current_natural |-> 8000,
              protection_level |-> "WP"]
    /\ ret.value.urgency_score = -1

\* The category as C8 states it.
C8_Category(score) ==
    IF score >= 8 THEN "Emergency"
    ELSE IF score >= 6 THEN "Critical"
    ELSE IF score >= 4 THEN "High"
    ELSE IF score >= 2 THEN "Moderate"
    ELSE "Low"

\* Second calls to compare a call with: between them they take every score
\* from -1 to 12.
C8_OtherCalls ==
    [iucn_code : {"CR", "EN", "VU", "NT", "LC"}, annual_decline : {0, 35},
     current_natural : {2000, 8000}, protection_level : {"NP", "PP", "MP", "WP"}]

\* C8: the result is a function of urgency_score alone: the category is
\* Emergency from 8, Critical from 6, High from 4, Moderate from 2 and Low
\* below (the score -1 included); a call with the same score returns the same
\* color, timeframe and action list; the list has 2 or 3 entries.
C8_ResultFromScoreAlone ==
    Done("categorize_ecosystem_urgency") =>
        LET r == ret.value IN
        /\ r.category = C8_Category(r.urgency_score)
        /\ Len(r.recommended_actions) \in {2, 3}
        /\ \E o \in C8_OtherCalls :
              urgency_score_of(o.iucn_code, o.annual_decline, o.current_natural,
                               o.protection_level) = r.urgency_score
        /\ \A o \in C8_OtherCalls :
              LET q == categorize_ecosystem_urgency(o.iucn_code, o.annual_decline,
                                                    o.current_natural,
                                                    o.protection_level)
              IN  q.urgency_score = r.urgency_score =>
                     /\ q.category = r.category
                     /\ q.color = r.color
                     /\ q.timeframe = r.timeframe
                     /\ q.recommended_actions = r.recommended_actions

\* A call scoring 8 on an unknown threat code: Emergency, as the known-code
\* calls that score 8.
C8_Witness ==
    /\ Done("categorize_ecosystem_urgency")
    /\ arg.iucn_code = "DD"
    /\ ret.value.urgency_score = 8
    /\ ret.value.category = "Emergency"
    /\ Len(ret.value.recommended_actions) = 3

\* C9: with national_value = 0, for every local_value and metric_type, the
\* comparison returns category No Comparison, delta 0 and performance_ratio
\* 1.0, performs no division and does not raise.
C9_ZeroNationalNoComparison ==
    (Done("calculate_performance_vs_national") /\ arg.national_value = 0) =>
        /\ ret.raised = "no"
        /\ divisions = 0
        /\ ret.value.category = "No Comparison"
        /\ ret.value.delta = 0
        /\ ret.value.performance_ratio = [num |-> 1, den |-> 1]

\* compare(10, 0, threat) has returned.
C9_Witness ==
    /\ Done("calculate_performance_vs_national")
    /\ arg = [local_value |-> 20, national_value |-> 0, metric_type |-> "threat"]
    /\ ret.raised = "no"
    /\ ret.value.category = "No Comparison"

\* local / national <= n/10, by cross-multiplication.
C10_RatioAtMost(local, national, n) ==
    IF national > 0 THEN 10 * local <= n * national ELSE 10 * local >= n * national

\* C10: for a lower-is-better metric and non-zero national_value, with
\* ratio = local / national, the category is Much Better if ratio <= 0.7,
\* Better if <= 0.9, Similar if <= 1.1, Worse if <= 1.3, else Much Worse;
\* compare(8, 10, threat) is Better.
C10_LowerIsBetterBands ==
    (/\ Done("calculate_performance_vs_national")
     /\ arg.metric_type \in {"threat", "decline", "transformation", "loss"}
     /\ arg.national_value # 0) =>
        LET l == arg.local_value
            n == arg.national_value
        IN  /\ ret.raised = "no"
            /\ ret.value.category =
                  IF C10_RatioAtMost(l, n, 7) THEN "Much Better"
                  ELSE IF C10_RatioAtMost(l, n, 9) THEN "Better"
                  ELSE IF C10_RatioAtMost(l, n, 11) THEN "Similar"
                  ELSE IF C10_RatioAtMost(l, n, 13) THEN "Worse"
                  ELSE "Much Worse"
            /\ (l = 16 /\ n = 20 /\ arg.metric_type = "threat")
                  => ret.value.category = "Better"

\* compare(8, 10, threat) has returned Better, with ratio 4/5.
C10_Witness ==
    /\ Done("calculate_performance_vs_national")
    /\ arg = [local_value |-> 16, national_value |-> 20, metric_type |-> "threat"]
    /\ ret.value.category = "Better"
    /\ ret.value.performance_ratio = [num |-> 4, den |-> 5]

\* local / national >= n/10, by cross-multiplication.
C11_RatioAtLeast(local, national, n) ==
    IF national > 0 THEN 10 * local >= n * national ELSE 10 * local <= n * national

\* C11: for a higher-is-better metric the bands mirror the lower-is-better
\* ones: ratio >= 1.3 is Much Better, >= 1.1 Better, >= 0.9 Similar,
\* >= 0.7 Worse, else Much Worse; the category and color at ratio r are those
\* of a lower-is-better metric at ratio 2 - r (local 2 * national - local),
\* boundaries included; compare(12, 10, habitat) is Better.
C11_HigherIsBetterMirror ==
    (/\ Done("calculate_performance_vs_national")
     /\ arg.metric_type \in {"habitat", "protection", "natural"}
     /\ arg.national_value # 0) =>
        LET l == arg.local_value
            n == arg.national_value
            mirrored == calculate_performance_vs_national(2 * n - l, n, "threat").outcome
        IN  /\ ret.raised = "no"
            /\ ret.value.category =
                  IF C11_RatioAtLeast(l, n, 13) THEN "Much Better"
                  ELSE IF C11_RatioAtLeast(l, n, 11) THEN "Better"
                  ELSE IF C11_RatioAtLeast(l, n, 9) THEN "Similar"
                  ELSE IF C11_RatioAtLeast(l, n, 7) THEN "Worse"
                  ELSE "Much Worse"
            /\ mirrored.value.category = ret.value.category
            /\ mirrored.value.color = ret.value.color
            /\ (l = 24 /\ n = 20 /\ arg.metric_type = "habitat")
                  => ret.value.category = "Better"

\* A higher-is-better comparison exactly on the 1.3 boundary has returned
\* Much Better, as the lower-is-better comparison at 0.7 does.
C11_Witness ==
    /\ Done("calculate_performance_vs_national")
    /\ arg = [local_value |-> 26, national_value |-> 20, metric_type |-> "natural"]
    /\ ret.value.category = "Much Better"
    /\ calculate_performance_vs_national(14, 20, "loss").outcome.value.category
          = "Much Better"

\* abs(local / national - 1) <= t/10 in exact arithmetic.
C12_DistanceAtMost(local, national, t) == 10 * Abs(local - national) <= t * Abs(national)

\* C12: for a metric_type outside the seven named ones and non-zero
\* national_value the category depends on the distance of the ratio from 1
\* only: Similar if |ratio - 1| <= 0.1, Moderate Difference if <= 0.3,
\* otherwise Large Difference; it is the same for ratio r and ratio 2 - r and
\* is never Much Better, Better, Worse or Much Worse.
C12_DefaultByDistance ==
    (/\ Done("calculate_performance_vs_national")
     /\ ~better_when_lower(arg.metric_type)
     /\ ~better_when_higher(arg.metric_type)
     /\ arg.national_value # 0) =>
        LET l == arg.local_value
            n == arg.national_value
            mirrored == calculate_performance_vs_national(2 * n - l, n,
                                                          arg.metric_type).outcome
        IN  /\ ret.raised = "no"
            /\ ret.value.category =
                  IF C12_DistanceAtMost(l, n, 1) THEN "Similar"
                  ELSE IF C12_DistanceAtMost(l, n, 3) THEN "Moderate Difference"
                  ELSE "Large Difference"
            /\ mirrored.value.category = ret.value.category
            /\ ret.value.category \notin {"Much Better", "Better", "Worse", "Much Worse"}

\* 10^decimals, for the one or two decimal places of delta_formatted.
C13_PowerOfTen(decimals) == IF decimals = 1 THEN 10 ELSE 100

\* C13: for non-zero national_value the result carries delta = local_value -
\* national_value, performance_ratio = local_value / national_value, and a
\* delta_formatted that has a '+' prefix exactly when delta > 0 and a '-'
\* exactly when delta < 0, shows |delta| with 1 decimal place when
\* |delta| >= 1 and with 2 decimal places otherwise, and ends with 'pp'.
C13_DeltaAndFormatting ==
    (Done("calculate_performance_vs_national") /\ arg.national_value # 0) =>
        LET l == arg.local_value
            n == arg.national_value
            f == ret.value.delta_formatted
        IN  /\ ret.raised = "no"
            /\ ret.value.delta = l - n
            /\ ret.value.performance_ratio.den > 0
            /\ ret.value.performance_ratio.num * n = ret.value.performance_ratio.den * l
            /\ f.prefix = (IF l - n > 0 THEN "+" ELSE "")
            /\ f.minus = (l - n < 0)
            /\ f.decimals = (IF Abs(l - n) >= 2 THEN 1 ELSE 2)
            /\ 2 * f.scaled = Abs(l - n) * C13_PowerOfTen(f.decimals)
            /\ f.suffix = "pp"

\* A difference of exactly one point is shown with one decimal place, a
\* positive one with its '+': 11.0 against 10.0 is "+1.0pp".
C13_Witness ==
    /\ Done("calculate_performance_vs_national")
    /\ arg.local_value = 22 /\ arg.national_value = 20
    /\ ret.value.delta = 2
    /\ ret.value.delta_formatted =
          [prefix |-> "+", minus |-> FALSE, scaled |-> 10, decimals |-> 1, suffix |-> "pp"]

\* The record get_threat_level_info gives for a code it does not know.
C14_Fallback(threat_code) ==
    [name |-> "Data Deficient", color |-> "#cccccc", priority |-> 0,
     description |-> "Classification pending or data deficient", code |-> threat_code]

\* C14: for every threat code other than CR, EN, VU, NT, LC (the empty
\* string, None and unknown strings included) get_threat_level_info returns,
\* without raising, the Data Deficient fallback: name 'Data Deficient',
\* priority 0, the neutral color and the description 'Classification pending
\* or data deficient'.
C14_UnknownThreatIsDataDeficient ==
    (Done("get_threat_level_info")
        /\ arg.threat_code \notin {"CR", "EN", "VU", "NT", "LC"}) =>
        /\ ret.raised = "no"
        /\ ret.value = C14_Fallback(arg.threat_code)

C14_Witness ==
    /\ Done("get_threat_level_info")
    /\ arg.threat_code = NoneCode
    /\ ret.value.name = "Data Deficient"
    /\ ret.value.priority = 0

\* The fields of the two fallback records, whatever code was asked for.
C15_IsThreatFallback(r) ==
    /\ r.name = "Data Deficient" /\ r.color = "#cccccc" /\ r.priority = 0
    /\ r.description = "Classification pending or data deficient"

C15_IsProtectionFallback(r) ==
    r = [name |-> "Unknown", color |-> "#cccccc",
         description |-> "Protection status unknown", status |-> "unknown"]

\* Every lookup returns without raising; a code of `threat' or `protection'
\* gets a record with name, color, priority or status, and description that
\* is not the fallback, and every other code gets the fallback.
C15_Catalog(threat, protection) ==
    /\ Done("get_threat_level_info") =>
          /\ ret.raised = "no"
          /\ {"name", "color", "priority", "description"} \subseteq DOMAIN ret.value
          /\ arg.threat_code \in threat <=> ~C15_IsThreatFallback(ret.value)
    /\ Done("get_protection_level_info") =>
          /\ ret.raised = "no"
          /\ {"name", "color", "status", "description"} \subseteq DOMAIN ret.value
          /\ arg.protection_code \in protection <=> ~C15_IsProtectionFallback(ret.value)

\* C15 as stated: the threat codes CR, EN, VU, NT, LC, DD and the protection
\* codes WP, MP, PP, NP each get a fully populated record different from the
\* fallback; every other code, the empty string and None included, gets the
\* fallback without raising.
C15_CatalogCompleteWithDD ==
    C15_Catalog({"CR", "EN", "VU", "NT", "LC", "DD"}, {"WP", "MP", "PP", "NP"})

\* C15 amended: the threat codes CR, EN, VU, NT, LC and the protection codes
\* WP, MP, PP, NP each get a fully populated record different from the
\* fallback; every other code, with DD, the empty string and None among
\* them, gets the fallback without raising.
C15_CatalogComplete ==
    C15_Catalog({"CR", "EN", "VU", "NT", "LC"}, {"WP", "MP", "PP", "NP"})

C15_Witness ==
    /\ Done("get_threat_level_info")
    /\ arg.threat_code = "DD"
    /\ C15_IsThreatFallback(ret.value)
    /\ ret.value.code = "DD"

\* C16: get_protection_level_info gives WP, MP, PP, NP the statuses
\* success, moderate, warning, critical, each with a name, a color and a
\* description, and gives every other code (the empty string, None and the
\* literal 'Unknown' included) the record with name 'Unknown' and status
\* 'unknown'.
C16_ProtectionStatuses ==
    Done("get_protection_level_info") =>
        LET code == arg.protection_code
            statuses == [WP |-> "success", MP |-> "moderate",
                         PP |-> "warning", NP |-> "critical"]
        IN  /\ ret.raised = "no"
            /\ {"name", "color", "description", "status"} \subseteq DOMAIN ret.value
            /\ IF code \in DOMAIN statuses
               THEN /\ ret.value.status = statuses[code]
                    /\ ret.value.name # "Unknown"
               ELSE /\ ret.value.name = "Unknown"
                    /\ ret.value.status = "unknown"

C16_Witness ==
    /\ Done("get_protection_level_info")
    /\ arg.protection_code = "Unknown"
    /\ ret.value.name = "Unknown"
    /\ get_protection_level_info("NP").status = "critical"

CoreFunctions ==
    {"get_risk_level_by_threshold", "get_risk_color_by_threshold",
     "get_threat_level_info", "get_protection_level_info",
     "calculate_composite_risk_score", "categorize_ecosystem_urgency",
     "calculate_performance_vs_national"}

\* C17: none of the seven core functions ends in an error, whatever code,
\* dimension or metric_type string (empty and unknown ones included),
\* decline rate, percentage, local value or national value (zero included)
\* it is called with.
C17_NoErrorOutcome ==
    (pc = "done" /\ fn \in CoreFunctions) => ret.raised = "no"

\* An urgency assessment on codes no table knows, finished with a result.
C17_Witness ==
    /\ Done("categorize_ecosystem_urgency")
    /\ arg.iucn_code = "DD" /\ arg.protection_level = "" /\ arg.annual_decline = 0
    /\ ret.raised = "no"
    /\ ret.value.urgency_score = urgency_score_of("DD", 0, arg.current_natural, "")

\* How alarming a comparison category is, by the color the code gives it:
\* blue, green, yellow (and the grey of No Comparison), orange, red.
C18_ComparisonRank(category) ==
    CASE category = "Much Better" -> 0
      [] category = "Better" -> 1
      [] category \in {"Similar", "No Comparison"} -> 2
      [] category \in {"Worse", "Moderate Difference"} -> 3
      [] category \in {"Much Worse", "Large Difference"} -> 4

C18_UrgencyRank(category) ==
    CASE category = "Low" -> 0
      [] category = "Moderate" -> 1
      [] category = "High" -> 2
      [] category = "Critical" -> 3
      [] category = "Emergency" -> 4

C18_NoMoreUrgent(r, s) ==
    /\ r.urgency_score <= s.urgency_score
    /\ C18_UrgencyRank(r.category) <= C18_UrgencyRank(s.category)

\* C18: with the other arguments fixed, an unrecognized dimension, threat
\* code, protection code or metric_type never gives a more alarming result
\* (higher severity, composite score, urgency score or category, or a worse
\* comparison category) than some recognized value of that argument gives.
C18_UnknownNeverMoreAlarming ==
    /\ (Done("get_risk_level_by_threshold") /\ arg.risk_type \notin Dimensions) =>
          \E d \in Dimensions :
              SeverityRank(ret.value)
                  <= SeverityRank(get_risk_level_by_threshold(d, arg.value))
    /\ (Done("get_threat_level_info") /\ arg.threat_code \notin DOMAIN descriptions) =>
          \E c \in DOMAIN descriptions :
              ret.value.priority <= get_threat_level_info(c).priority
    /\ (Done("calculate_composite_risk_score") /\ arg.iucn_code \notin DOMAIN iucn_scores) =>
          \E c \in DOMAIN iucn_scores :
              ret.value <= calculate_composite_risk_score(c, arg.annual_decline,
                                                          arg.transformation_pct)
    /\ (Done("categorize_ecosystem_urgency") /\ arg.iucn_code \notin DOMAIN iucn_urgency) =>
          \E c \in DOMAIN iucn_urgency :
              C18_NoMoreUrgent(ret.value,
                  categorize_ecosystem_urgency(c, arg.annual_decline,
                                               arg.current_natural, arg.protection_level))
    /\ (Done("categorize_ecosystem_urgency")
            /\ arg.protection_level \notin DOMAIN protection_urgency) =>
          \E p \in DOMAIN protection_urgency :
              C18_NoMoreUrgent(ret.value,
                  categorize_ecosystem_urgency(arg.iucn_code, arg.annual_decline,
                                               arg.current_natural, p))
    /\ (Done("calculate_performance_vs_national")
            /\ ~better_when_lower(arg.metric_type)
            /\ ~better_when_higher(arg.metric_type)) =>
          \E m \in {"threat", "decline", "transformation", "loss",
                    "habitat", "protection", "natural"} :
              C18_ComparisonRank(ret.value.category)
                  <= C18_ComparisonRank(
                         calculate_performance_vs_national(arg.local_value,
                             arg.national_value, m).outcome.value.category)

CallAlone(f, a) ==
    CASE f = "get_risk_level_by_threshold" ->
            Return(get_risk_level_by_threshold(a.risk_type, a.value))
      [] f = "get_risk_color_by_threshold" ->
            Return(get_risk_color_by_threshold(a.risk_type, a.value))
      [] f = "get_threat_level_info" -> Return(get_threat_level_info(a.threat_code))
      [] f = "get_protection_level_info" ->
            Return(get_protection_level_info(a.protection_code))
      [] f = "assess_risk_trajectory" ->
            Return(assess_risk_trajectory(a.current_natural, a.annual_decline,
                                          a.protection_level))
      [] f = "calculate_composite_risk_score" ->
            Return(calculate_composite_risk_score(a.iucn_code, a.annual_decline,
                                                  a.transformation_pct))
      [] f = "categorize_ecosystem_urgency" ->
            Return(categorize_ecosystem_urgency(a.iucn_code, a.annual_decline,
                                                a.current_natural, a.protection_level))
      [] f = "calculate_performance_vs_national" ->
            calculate_performance_vs_national(a.local_value, a.national_value,
                                              a.metric_type).outcome

C21_TransformationPart ==
    ret.value - calculate_composite_risk_score(arg.iucn_code, arg.annual_decline, 0)

C21_DeclinePart ==
    ret.value - calculate_composite_risk_score(arg.iucn_code, 0, arg.transformation_pct)

C24_FinestSelectedLevel ==
    Done("get_selection_level") =>
        LET s == arg.selections
            specific == {<<3, "ecosystem">> : x \in {s.ecosystem} \ {"All Ecosystems"}}
                        \cup {<<2, "bioregion">> : x \in {s.bioregion} \ {"All Bioregions"}}
                        \cup {<<1, "biome">> : x \in {s.biome} \ {"All Biomes"}}
                        \cup {<<0, "national">>}
        IN  /\ ret.raised = "no"
            /\ \E top \in specific :
                  /\ \A other \in specific : other[1] <= top[1]
                  /\ ret.value = top[2]
            /\ ret.value = "national" <=>
                  s = [biome |-> "All Biomes", bioregion |-> "All Bioregions",
                       ecosystem |-> "All Ecosystems"]

\* An ecosystem picked with the bioregion left at 'All Bioregions'.
C24_Witness ==
    /\ Done("get_selection_level")
    /\ arg.selections = [biome |-> "Fynbos", bioregion |-> "All Bioregions",
                         ecosystem |-> "Cape_Flats_Sand_Fynbos"]
    /\ ret.value = "ecosystem"

C30_UrgencyRank(urgency) ==
    CASE urgency = "low" -> 0
      [] urgency = "moderate" -> 1
      [] urgency = "high" -> 2
      [] urgency = "immediate" -> 3

\* The urgency the habitat step of assess_risk_trajectory sets.
C30_HabitatUrgency(current_natural) ==
    IF current_natural < 3000 THEN "immediate"
    ELSE IF current_natural < 5000 THEN "high"
    ELSE IF current_natural < 7000 THEN "moderate"
    ELSE "low"

\* C30: in assess_risk_trajectory no later step lowers the urgency: the final
\* urgency is at least that of the habitat step (low < moderate < high <
\* immediate), current_natural < 30 always ends 'immediate', a protection
\* code NP or PP never ends 'low' and always adds 'Improve protection
\* coverage', and level and color depend on current_natural only.
C30_UrgencyNeverLowered ==
    Done("assess_risk_trajectory") =>
        LET t == ret.value.trajectory
            recs == ret.value.recommendations
        IN  /\ ret.raised = "no"
            /\ C30_UrgencyRank(t.urgency)
                  >= C30_UrgencyRank(C30_HabitatUrgency(arg.current_natural))
            /\ arg.current_natural < 3000 => t.urgency = "immediate"
            /\ arg.protection_level \in {"NP", "PP"} =>
                  /\ t.urgency # "low"
                  /\ \E i \in 1..Len(recs) : recs[i] = "Improve protection coverage"
            /\ \A d \in TrajectoryDeclineValues, p \in ProtectionCodes :
                  LET other == assess_risk_trajectory(arg.current_natural, d, p).trajectory
                  IN  other.level = t.level /\ other.color = t.color

\* Little habitat left and a rapid decline: the decline step leaves the
\* urgency at 'immediate'.
C30_Witness ==
    /\ Done("assess_risk_trajectory")
    /\ arg.current_natural = 2999 /\ arg.annual_decline = 21
    /\ arg.protection_level = "PP"
    /\ ret.value.trajectory.urgency = "immediate"
    /\ ret.value.recommendations[Len(ret.value.recommendations)]
          = "Improve protection coverage"

\* C29: ComparisonMetrics.calculate_performance_category and
\* calculate_performance_vs_national return the same category and color for
\* every metric_type in threat, decline, transformation, habitat, protection,
\* natural and every local_value and national_value; for national_value = 0
\* both return 'No Comparison' for every metric_type.
C29_TwoComparisonsAgree ==
    Done("calculate_performance_category") =>
        LET other == calculate_performance_vs_national(arg.local_value,
                         arg.national_value, arg.metric_type).outcome
        IN  /\ ret.raised = "no" /\ other.raised = "no"
            /\ arg.metric_type \in {"threat", "decline", "transformation",
                                    "habitat", "protection", "natural"} =>
                  /\ ret.value.category = other.value.category
                  /\ ret.value.color = other.value.color
            /\ arg.national_value = 0 =>
                  /\ ret.value.category = "No Comparison"
                  /\ other.value.category = "No Comparison"

\* Transformation of 9.0 against a national 10.0 is 'Better' to both.
C29_Witness ==
    /\ Done("calculate_performance_category")
    /\ arg = [local_value |-> 18, national_value |-> 20, metric_type |-> "transformation"]
    /\ ret.value.category = "Better"
    /\ calculate_performance_vs_national(18, 20, "transformation").outcome.value.category
          = "Better"

\* C28: the composite_risk_score that get_crisis_ecosystems computes in SQL
\* equals calculate_composite_risk_score(rlev5, prcdelyear, 100 - pcnat2014)
\* for every row (rlev5, prcdelyear and pcnat2014 not NULL), at every band
\* boundary too.
C28_SqlScoreIsCompositeScore ==
    Done("get_crisis_ecosystems") =>
        /\ ret.raised = "no"
        /\ \A i \in 1..Len(ret.value) :
              LET row == ret.value[i]
              IN  row.composite_risk_score =
                     calculate_composite_risk_score(row.rlev5, row.prcdelyear,
                                                    10000 - row.pcnat2014)

\* A row at the 50% transformation boundary and the 0.3 decline boundary:
\* 30 for EN and 15 + 15 for the two bands below.
C28_Witness ==
    /\ Done("get_crisis_ecosystems")
    /\ Len(arg.table) = 1
    /\ arg.table[1].rlev5 = "EN" /\ arg.table[1].prcdelyear = 30
    /\ arg.table[1].pcnat2014 = 5000
    /\ Len(ret.value) = 1
    /\ ret.value[1].composite_risk_score = 60

\* C26: get_biome_risk_summary returns the empty record exactly when the
\* biome has no ecosystem rows; otherwise total_ecosystems is the number of
\* rows (>= 1), critically_endangered + endangered + vulnerable <=
\* total_ecosystems, most_threatened_ecosystem is None exactly when no row is
\* CR or EN and otherwise is the first such row, and
\* fastest_declining_ecosystem has decline_rate equal to max_decline_rate.
C26_BiomeSummary ==
    Done("get_biome_risk_summary") =>
        LET rows == arg.rows
            s == ret.value
            threatened == {i \in 1..Len(rows) : rows[i].rlev5 \in {"CR", "EN"}}
        IN  /\ ret.raised = "no"
            /\ s = EmptyDict <=> rows = <<>>
            /\ rows # <<>> =>
                  /\ s.total_ecosystems = Len(rows) /\ s.total_ecosystems >= 1
                  /\ s.critically_endangered + s.endangered + s.vulnerable
                        <= s.total_ecosystems
                  /\ s.most_threatened_ecosystem = <<>> <=> threatened = {}
                  /\ threatened # {} =>
                        \E i \in threatened :
                            /\ \A k \in threatened : i <= k
                            /\ s.most_threatened_ecosystem[1].name = rows[i].name_18
                            /\ s.most_threatened_ecosystem[1].threat_level = rows[i].rlev5
                  /\ s.fastest_declining_ecosystem[1].decline_rate = s.max_decline_rate

\* C22: when the biome chosen in the current run differs from the stored
\* biome, the stored bioregion and ecosystem are 'All Bioregions' and 'All
\* Ecosystems' before the bioregion and the ecosystem selector are
\* evaluated; when the chosen bioregion differs from the stored bioregion,
\* the stored ecosystem is 'All Ecosystems' before the ecosystem selector is
\* evaluated.  (A biome or bioregion is chosen where its selectbox is shown.)
C22_DependentsResetBeforeUse ==
    fn = "create_filter_sidebar" =>
        /\ (pc = "bioregion" /\ "biome" \in selected.shown
                /\ selected.biome # geo_selections.biome) =>
              /\ geo_selections.bioregion = "All Bioregions"
              /\ geo_selections.ecosystem = "All Ecosystems"
        /\ (pc = "ecosystem" /\ "biome" \in selected.shown
                /\ selected.biome # geo_selections.biome) =>
              geo_selections.ecosystem = "All Ecosystems"
        /\ (pc = "ecosystem" /\ "bioregion" \in selected.shown
                /\ selected.bioregion # geo_selections.bioregion) =>
              geo_selections.ecosystem = "All Ecosystems"

\* The session holds a Fynbos selection and the user has just picked
\* Savanna: the bioregion selector is about to run on a reset selection.
C22_Witness ==
    /\ fn = "create_filter_sidebar"
    /\ pc = "bioregion"
    /\ "biome" \in selected.shown
    /\ selected.biome = "Savanna"
    /\ geo_selections = [biome |-> "Fynbos", bioregion |-> "All Bioregions",
                         ecosystem |-> "All Ecosystems"]

\* C23: after every run of create_filter_sidebar, whatever the user chose
\* and whether the data layer gave rows, nothing or an exception, the
\* returned selection and the stored one are equal, and biome = 'All Biomes'
\* implies bioregion = 'All Bioregions' and ecosystem = 'All Ecosystems'.
C23_ReturnedIsStored ==
    (pc = "done" /\ fn = "create_filter_sidebar") =>
        /\ ret.raised = "no"
        /\ ret.value = geo_selections
        /\ ret.value.biome = "All Biomes" =>
              /\ ret.value.bioregion = "All Bioregions"
              /\ ret.value.ecosystem = "All Ecosystems"

\* A run in which the bioregions could not be read and the user picked an
\* ecosystem of the biome.
C23_Witness ==
    /\ pc = "done" /\ fn = "create_filter_sidebar"
    /\ selected.shown = {"biome", "ecosystem"}
    /\ ret.value = [biome |-> "Fynbos", bioregion |-> "All Bioregions",
                    ecosystem |-> "Cape_Flats_Sand_Fynbos"]
    /\ geo_selections = ret.value


-----------------------------------------------------------------------------
Failures == {"engine", "connect", "query"}

\* C25: execute_query and execute_spatial_query never end in an exception:
\* when creating the engine, connecting or running the query fails they
\* return the empty table, and get_national_summary, built on execute_query,
\* then returns the empty record.
C25_FailuresBecomeEmpty ==
    /\ (pc = "done" /\ fn \in {"execute_query", "execute_spatial_query"}) =>
          /\ ret.raised = "no"
          /\ ret.caught \in Failures => ret.value = EmptyFrame
    /\ (pc = "done" /\ fn = "get_national_summary") =>
          /\ ret.raised = "no"
          /\ ret.caught \in Failures => ret.value = EmptyDict

\* get_national_summary has returned the empty record after the connection
\* failed on an engine that already existed.
C25_Witness ==
    /\ pc = "done"
    /\ fn = "get_national_summary"
    /\ ret.raised = "no"
    /\ ret.caught = "connect"
    /\ ret.value = EmptyDict
    /\ "national_summary" \in DOMAIN query_cache

\* C27: in every status check_database_health returns, data_available and
\* spatial_data each imply table_exists, table_exists implies connection,
\* and a step that raised has left error_message set and every flag from
\* that step on False.
C27_StagedHealth ==
    (pc = "done" /\ fn = "check_database_health") =>
        LET h == ret.value
        IN  /\ h.data_available => h.table_exists
            /\ h.spatial_data => h.table_exists
            /\ h.table_exists => h.connection
            /\ h.error_message = <<"table_check">> =>
                  ~h.table_exists /\ ~h.data_available /\ ~h.spatial_data
            /\ h.error_message = <<"count">> =>
                  ~h.data_available /\ ~h.spatial_data
            /\ h.error_message = <<"spatial_count">> => ~h.spatial_data
            /\ h.error_message # <<>> => h.connection

\* A check has returned in which the spatial count raised after the table
\* and its data had been found.
C27_Witness ==
    /\ pc = "done"
    /\ fn = "check_database_health"
    /\ ret.value.error_message = <<"spatial_count">>
    /\ ret.value.connection
    /\ ret.value.table_exists
    /\ ret.value.data_available
    /\ ~ret.value.spatial_data
=============================================================================
